---- MODULE Spec2Model ----
(***************************************************************************)
(* State-machine model of the trading core of tusharkc/trading_agent:      *)
(*   - WebSocketManager: tick buffering and 5-minute candle aggregation,   *)
(*     stream (re)connection and subscription                              *)
(*     (src/app/domains/trading/websocket_manager.py)                      *)
(*   - ExecutionEngine / PositionManager / RiskManager / OrderManager:     *)
(*     candle-close decision cycle, exits, end-of-day job                  *)
(*   - TradingSimulator: time-stepped replay                               *)
(* Time is counted in candle intervals: `now` is the index of the          *)
(* 5-minute interval the wall clock is in (datetime.now() floored to the   *)
(* interval, websocket_manager.py:149-155).                                *)
(***************************************************************************)
EXTENDS Integers, Sequences, FiniteSets, TLC

(***************************************************************************)
(* Bounds of the model                                                     *)
(***************************************************************************)
NumTokens == 2          \* instruments on the stream
MaxTime   == 2          \* last interval index the clock reaches
MaxTicks  == 3          \* ticks delivered by the stream in one run
MaxPrice  == 2          \* tick prices are 1..MaxPrice
MaxVolume == 1          \* tick volumes are 1..MaxVolume
MaxConnects == 2        \* connect() calls in one run

Tokens      == 1..NumTokens
TickPrices  == 1..MaxPrice
TickVolumes == 1..MaxVolume

None == 0 - 1           \* Python None for an interval index or a time
NoToken == None + 1      \* no instrument (a thread that is not in a handler)

(***************************************************************************)
(* Program constants                                                       *)
(***************************************************************************)
MaxCandles == 100       \* rolling candle window

VARIABLES
    \* ---- wall clock
    now,
    \* ---- WebSocketManager fields
    conn,                   \* state of self.kws: "none" | "open" | "lost" | "retrying" | "dead" | "closed"
    is_connected,
    subscribed_instruments,
    ticks_buffer,           \* dict token -> list of ticks
    candles,                \* dict token -> list of candles
    last_candle_time,       \* dict token -> interval index
    lock,                   \* holder of self.lock: "free" | "tick" | "main"
    \* ---- subscribe requests issued on the current connection (kws.subscribe)
    streamSubs,
    reconnected,            \* the open connection was established by a reconnection
    \* ---- stream thread (KiteTicker callbacks): position in _on_ticks
    tpc, ttok, tstart,
    \* ---- thread calling disconnect(): position in disconnect
    mpc, mleft, mtok,
    \* ---- ExecutionEngine.historical_data_cache: candles handed to the callback
    historical_data_cache,
    \* ---- history: every tick handed to _on_ticks, with its arrival interval
    arrived,
    nticks, nconnects

aggVars == <<now, conn, is_connected, subscribed_instruments, ticks_buffer, candles,
             last_candle_time, lock, streamSubs, reconnected, tpc, ttok, tstart,
             mpc, mleft, mtok, historical_data_cache, arrived, nticks, nconnects>>

VARIABLES
    \* ---- database
    positions,              \* table positions: sequence of rows, id = index
    performance,            \* row of table performance for today: <<>> or <<row>>
    \* ---- RiskManager.max_positions, ExecutionEngine.initial_capital
    max_positions,
    initial_capital,
    \* ---- thread running the candle-close callback: position in process_candle
    \* corders is what OrderManager.execute_entry returned to _execute_entry
    cpc, cstock, cind, cleft, centry, corders,
    \* ---- broker: per position, the ids of the protective orders placed at its
    \* entry that are still pending
    pending_orders,
    \* ---- scheduler thread: position in handle_end_of_day
    epc, eleft,
    \* ---- _execute_exit on each thread: position and locals
    xpc, xpos, xprice, xreason,
    \* ---- history: market SELL orders placed and close_position writes per
    \* position, run of losing closes since the last winning close, whether
    \* the latest close was a winning one
    sells, closes, lossStreak, lastCloseWon,
    \* ---- rows the run may insert into table positions
    posBudget,
    \* ---- ExecutionEngine.is_running
    is_running,
    \* ---- TradingSimulator: self.positions, position in _simulate_time_progression
    \* (pass, stock, index of the current 5-minute step)
    sim_positions, spc, sstock, stime,
    \* ---- TradingSimulator.trades (each trade with the index of its position,
    \* which the code does not record), total_entries and total_exits
    trades, totals,
    \* ---- TradingSimulator.historical_data as the run reads it: for every step
    \* of the day and every stock, the indicator snapshot computed from the
    \* candles up to that step (current_price = close of the last candle)
    historical_data,
    \* ---- history: number of the simulator run, ledger of the run before it
    srun, sim_prev,
    \* ---- history: the latest call of a SignalGenerator or RiskManager
    \* function, with its arguments, the store it read and its result
    call,
    \* ---- ExecutionEngine life cycle: "none" | "constructed" | "failed"
    engine,
    \* ---- KiteClient.access_token is set
    access_token,
    \* ---- watchlist storage: <<>> or <<latest record>>; symbols the broker lists
    watchlist_store, instruments,
    \* ---- ExecutionEngine.watchlist (its symbols), stock_to_instrument_token
    watchlist, stock_to_instrument_token,
    \* ---- BlockingScheduler: registered job ids, scheduler.running
    scheduler_jobs, scheduler_running,
    \* ---- thread in start_monitoring: "idle" | "connect" | "blocked" (inside
    \* scheduler.start()); thread in stop_monitoring: "idle" | "disconnect"
    bpc, stoppc,
    \* ---- history: stop_monitoring calls returned since the last start_monitoring
    stops_in_row

liveVars == <<positions, performance, max_positions, initial_capital,
              cpc, cstock, cind, cleft, centry, corders, pending_orders, epc, eleft,
              xpc, xpos, xprice, xreason, sells, closes, lossStreak, lastCloseWon,
              posBudget, is_running, sim_positions, trades, totals, spc, sstock, stime,
              historical_data, srun, sim_prev, call,
              engine, access_token, watchlist_store, instruments, watchlist,
              stock_to_instrument_token, scheduler_jobs, scheduler_running,
              bpc, stoppc, stops_in_row>>

vars == <<aggVars, liveVars>>

(***************************************************************************)
(* Python helpers                                                          *)
(***************************************************************************)
\* dict.get(k, default)
Get(d, k, default) == IF k \in DOMAIN d THEN d[k] ELSE default

\* d[k] = v
Put(d, k, v) == [x \in (DOMAIN d) \cup {k} |-> IF x = k THEN v ELSE d[x]]

\* the first n elements of s
FirstN(s, n) == IF Len(s) > n THEN SubSeq(s, 1, n) ELSE s

\* lst[-n:]
LastN(s, n) == IF Len(s) > n THEN SubSeq(s, Len(s) - n + 1, Len(s)) ELSE s

RECURSIVE SeqSum(_)
SeqSum(s) == IF s = <<>> THEN 0 ELSE Head(s) + SeqSum(Tail(s))

SeqMax(s) == CHOOSE x \in {s[i] : i \in 1..Len(s)} : \A j \in 1..Len(s) : s[j] <= x
SeqMin(s) == CHOOSE x \in {s[i] : i \in 1..Len(s)} : \A j \in 1..Len(s) : x <= s[j]

Truthy(x) == x # 0

(***************************************************************************)
(* WebSocketManager                                                        *)
(***************************************************************************)

\* a `with self.lock:` that excludes nobody
LockNotExclusive == TRUE

\* `with self.lock:` can be entered
LockFree == lock = "free"

\* _close_candle: the candle built from the buffered ticks (lines 178-194)
BuildCandle(tok, ticks) ==
    LET prices  == SelectSeq([i \in 1..Len(ticks) |-> ticks[i].last_price], Truthy)
        volumes == SelectSeq([i \in 1..Len(ticks) |-> ticks[i].volume], Truthy)
    IN  [instrument_token |-> tok,
         timestamp |-> last_candle_time[tok],
         open   |-> prices[1],
         high   |-> SeqMax(prices),
         low    |-> SeqMin(prices),
         close  |-> prices[Len(prices)],
         volume |-> SeqSum(volumes)]

\* _close_candle returns without a candle: empty buffer, or no priced tick
NoCandle(tok) ==
    LET ticks == Get(ticks_buffer, tok, <<>>)
    IN  \/ ticks = <<>>
        \/ SelectSeq([i \in 1..Len(ticks) |-> ticks[i].last_price], Truthy) = <<>>

\* _close_candle, from taking the lock to the call of the callback
\* (lines 171-213); the lock stays held while the callback runs.
CloseCandleEnter(th, tok) ==
    /\ LockFree
    /\ LET ticks == Get(ticks_buffer, tok, <<>>)
       IN  IF NoCandle(tok)
           THEN /\ ticks_buffer' = IF ticks = <<>> THEN ticks_buffer
                                   ELSE Put(ticks_buffer, tok, <<>>)
                /\ UNCHANGED <<candles, lock>>
           ELSE /\ candles' = Put(candles, tok,
                       LastN(Append(Get(candles, tok, <<>>), BuildCandle(tok, ticks)),
                             MaxCandles))
                /\ ticks_buffer' = Put(ticks_buffer, tok, <<>>)
                /\ lock' = th

\* the candle that _close_candle hands to the callback (line 213)
ClosedCandle(tok) == BuildCandle(tok, Get(ticks_buffer, tok, <<>>))

\* process_candle, first part: the candle is appended to the engine's
\* cache, at most 100 kept (execution_engine.py:177-183)
CacheAppend(tok, candle) ==
    historical_data_cache' = Put(historical_data_cache, tok,
        LastN(Append(Get(historical_data_cache, tok, <<>>), candle), MaxCandles))

----------------------------------------------------------------------------
\* connect(): a new KiteTicker is created and connected; _on_connect sets
\* is_connected (lines 44-82, 230-233)
Connect ==
    /\ mpc = "idle"
    /\ conn \in {"none", "closed", "dead"}
    /\ nconnects < MaxConnects
    /\ nconnects' = nconnects + 1
    /\ conn' = "open"
    /\ is_connected' = TRUE
    /\ streamSubs' = {}
    /\ reconnected' = FALSE
    /\ UNCHANGED <<now, subscribed_instruments, ticks_buffer, candles, last_candle_time,
                   lock, tpc, ttok, tstart, mpc, mleft, mtok, historical_data_cache,
                   arrived, nticks>>
    /\ UNCHANGED liveVars

\* subscribe(instrument_tokens) (lines 84-106)
SubscribeBody(toks) ==
    IF ~is_connected
    THEN UNCHANGED <<streamSubs, subscribed_instruments>>
    ELSE /\ streamSubs' = streamSubs \cup toks
         /\ subscribed_instruments' = subscribed_instruments \cup toks

Subscribe(toks) ==
    /\ mpc = "idle"
    /\ conn = "open"
    /\ ~(toks \subseteq streamSubs)
    /\ SubscribeBody(toks)
    /\ UNCHANGED <<now, conn, is_connected, ticks_buffer, candles, last_candle_time,
                   lock, reconnected, tpc, ttok, tstart, mpc, mleft, mtok,
                   historical_data_cache, arrived, nticks, nconnects>>
    /\ UNCHANGED liveVars

\* the connection drops: KiteTicker calls _on_close (lines 235-238)
OnClose ==
    /\ tpc = "idle"
    /\ conn = "open"
    /\ conn' = "lost"
    /\ is_connected' = FALSE
    /\ streamSubs' = {}
    /\ UNCHANGED <<now, subscribed_instruments, ticks_buffer, candles, last_candle_time,
                   lock, reconnected, tpc, ttok, tstart, mpc, mleft, mtok,
                   historical_data_cache, arrived, nticks, nconnects>>
    /\ UNCHANGED liveVars

\* KiteTicker retries: _on_reconnect (lines 244-249)
OnReconnect ==
    /\ tpc = "idle"
    /\ conn = "lost"
    /\ conn' = "retrying"
    /\ IF subscribed_instruments # {}
       THEN SubscribeBody(subscribed_instruments)
       ELSE UNCHANGED <<streamSubs, subscribed_instruments>>
    /\ UNCHANGED <<now, is_connected, ticks_buffer, candles, last_candle_time,
                   lock, reconnected, tpc, ttok, tstart, mpc, mleft, mtok,
                   historical_data_cache, arrived, nticks, nconnects>>
    /\ UNCHANGED liveVars

\* the retried connection opens: _on_connect (lines 230-233)
OnConnect ==
    /\ tpc = "idle"
    /\ conn = "retrying"
    /\ conn' = "open"
    /\ is_connected' = TRUE
    /\ reconnected' = TRUE
    /\ UNCHANGED <<now, subscribed_instruments, ticks_buffer, candles, last_candle_time,
                   lock, streamSubs, tpc, ttok, tstart, mpc, mleft, mtok,
                   historical_data_cache, arrived, nticks, nconnects>>
    /\ UNCHANGED liveVars

\* KiteTicker gives up: _on_noreconnect (lines 251-254)
OnNoReconnect ==
    /\ tpc = "idle"
    /\ conn = "retrying"
    /\ conn' = "dead"
    /\ is_connected' = FALSE
    /\ UNCHANGED <<now, subscribed_instruments, ticks_buffer, candles, last_candle_time,
                   lock, streamSubs, reconnected, tpc, ttok, tstart, mpc, mleft, mtok,
                   historical_data_cache, arrived, nticks, nconnects>>
    /\ UNCHANGED liveVars

----------------------------------------------------------------------------
\* _on_ticks, one tick: append to the buffer under the lock (lines 129-139)
OnTicksAppend(tok, price, volume) ==
    /\ tpc = "idle"
    /\ conn = "open"
    /\ tok \in streamSubs
    /\ nticks < MaxTicks
    /\ LockFree
    /\ LET tick == [timestamp |-> now, last_price |-> price, volume |-> volume]
       IN  /\ ticks_buffer' = Put(ticks_buffer, tok,
                                  Append(Get(ticks_buffer, tok, <<>>), tick))
           /\ arrived' = [arrived EXCEPT ![tok] = Append(@, tick)]
    /\ nticks' = nticks + 1
    /\ tpc' = "check"
    /\ ttok' = tok
    /\ UNCHANGED <<now, conn, is_connected, subscribed_instruments, candles,
                   last_candle_time, lock, streamSubs, reconnected, tstart,
                   mpc, mleft, mtok, historical_data_cache, nconnects>>
    /\ UNCHANGED liveVars

\* _check_and_aggregate_candle (lines 147-166), up to the call of _close_candle
CheckAndAggregate ==
    /\ tpc = "check"
    /\ LET candle_start == now
           last == Get(last_candle_time, ttok, None)
       IN  IF last = None \/ candle_start > last
           THEN IF last # None
                THEN /\ tpc' = "close"
                     /\ tstart' = candle_start
                     /\ UNCHANGED <<last_candle_time, ttok>>
                ELSE /\ last_candle_time' = Put(last_candle_time, ttok, candle_start)
                     /\ tpc' = "idle"
                     /\ ttok' = NoToken
                     /\ UNCHANGED tstart
           ELSE /\ tpc' = "idle"
                /\ ttok' = NoToken
                /\ UNCHANGED <<last_candle_time, tstart>>
    /\ UNCHANGED <<now, conn, is_connected, subscribed_instruments, ticks_buffer, candles,
                   lock, streamSubs, reconnected, mpc, mleft, mtok,
                   historical_data_cache, arrived, nticks, nconnects>>
    /\ UNCHANGED liveVars

\* _close_candle called from _check_and_aggregate_candle (line 163)
TickCloseCandle ==
    /\ tpc = "close"
    /\ CloseCandleEnter("tick", ttok)
    /\ IF NoCandle(ttok)
       THEN /\ tpc' = "setlast"
            /\ UNCHANGED historical_data_cache
       ELSE /\ tpc' = "callback"
            /\ CacheAppend(ttok, ClosedCandle(ttok))
    /\ UNCHANGED <<now, conn, is_connected, subscribed_instruments, last_candle_time,
                   streamSubs, reconnected, ttok, tstart, mpc, mleft, mtok,
                   arrived, nticks, nconnects>>
    /\ UNCHANGED liveVars

\* the callback returns on the stream thread; the lock is released (line 213)
TickCallbackReturn ==
    /\ tpc = "callback"
    /\ lock' = "free"
    /\ tpc' = "setlast"
    /\ UNCHANGED <<now, conn, is_connected, subscribed_instruments, ticks_buffer, candles,
                   last_candle_time, streamSubs, reconnected, ttok, tstart, mpc, mleft,
                   mtok, historical_data_cache, arrived, nticks, nconnects>>
    /\ UNCHANGED liveVars

\* "Start new candle" (line 166)
TickSetLast ==
    /\ tpc = "setlast"
    /\ last_candle_time' = Put(last_candle_time, ttok, tstart)
    /\ tpc' = "idle"
    /\ ttok' = NoToken
    /\ tstart' = None
    /\ UNCHANGED <<now, conn, is_connected, subscribed_instruments, ticks_buffer, candles,
                   lock, streamSubs, reconnected, mpc, mleft, mtok,
                   historical_data_cache, arrived, nticks, nconnects>>
    /\ UNCHANGED liveVars

----------------------------------------------------------------------------
MaxCloses == 102       \* candles closed for one instrument in a long run

\* _on_ticks run to its end for one tick that arrives in a new 5-minute
\* interval, no other thread being inside the manager (lines 125-213,
\* execution_engine.py:176-183): the tick is buffered; when the instrument
\* has an open interval its candle is closed from the buffer, appended to
\* the window, handed to the callback, which appends it to the engine's
\* cache; the new interval is opened
StreamTick(tok, price, volume) ==
    /\ tpc = "idle" /\ mpc = "idle" /\ LockFree
    /\ conn = "open"
    /\ tok \in streamSubs
    /\ Len(arrived[tok]) <= MaxCloses
    /\ now' = now + 1
    /\ LET tick == [timestamp |-> now', last_price |-> price, volume |-> volume]
           ticks == Append(Get(ticks_buffer, tok, <<>>), tick)
           last == Get(last_candle_time, tok, None)
           prices == SelectSeq([i \in 1..Len(ticks) |-> ticks[i].last_price], Truthy)
       IN  /\ arrived' = [arrived EXCEPT ![tok] = Append(@, tick)]
           /\ last_candle_time' = Put(last_candle_time, tok, now')
           /\ IF last = None
              THEN /\ ticks_buffer' = Put(ticks_buffer, tok, ticks)
                   /\ UNCHANGED <<candles, historical_data_cache>>
              ELSE IF prices = <<>>
              THEN /\ ticks_buffer' = Put(ticks_buffer, tok, <<>>)
                   /\ UNCHANGED <<candles, historical_data_cache>>
              ELSE /\ candles' = Put(candles, tok,
                          LastN(Append(Get(candles, tok, <<>>), BuildCandle(tok, ticks)),
                                MaxCandles))
                   /\ ticks_buffer' = Put(ticks_buffer, tok, <<>>)
                   /\ CacheAppend(tok, BuildCandle(tok, ticks))
    /\ nticks' = nticks + 1
    /\ UNCHANGED <<conn, is_connected, subscribed_instruments, lock, streamSubs,
                   reconnected, tpc, ttok, tstart, mpc, mleft, mtok, nconnects>>
    /\ UNCHANGED liveVars

----------------------------------------------------------------------------
\* disconnect() (lines 256-269): the buffers to flush are listed first
DisconnectBegin ==
    /\ mpc = "idle"
    /\ conn # "none"
    /\ mpc' = "flush"
    /\ mleft' = DOMAIN ticks_buffer
    /\ UNCHANGED <<now, conn, is_connected, subscribed_instruments, ticks_buffer, candles,
                   last_candle_time, lock, streamSubs, reconnected, tpc, ttok, tstart,
                   mtok, historical_data_cache, arrived, nticks, nconnects>>
    /\ UNCHANGED liveVars

\* one turn of the flush loop (lines 261-263)
DisconnectFlush(tok) ==
    /\ mpc = "flush"
    /\ tok \in mleft
    /\ mleft' = mleft \ {tok}
    /\ IF Get(last_candle_time, tok, None) # None
       THEN /\ CloseCandleEnter("main", tok)
            /\ IF NoCandle(tok)
               THEN UNCHANGED <<mpc, mtok, historical_data_cache>>
               ELSE /\ mpc' = "callback"
                    /\ mtok' = tok
                    /\ CacheAppend(tok, ClosedCandle(tok))
       ELSE UNCHANGED <<ticks_buffer, candles, lock, mpc, mtok, historical_data_cache>>
    /\ UNCHANGED <<now, conn, is_connected, subscribed_instruments, last_candle_time,
                   streamSubs, reconnected, tpc, ttok, tstart, arrived, nticks, nconnects>>
    /\ UNCHANGED liveVars

\* the callback returns on the disconnecting thread; the lock is released
MainCallbackReturn ==
    /\ mpc = "callback"
    /\ lock' = "free"
    /\ mpc' = "flush"
    /\ mtok' = NoToken
    /\ UNCHANGED <<now, conn, is_connected, subscribed_instruments, ticks_buffer, candles,
                   last_candle_time, streamSubs, reconnected, tpc, ttok, tstart, mleft,
                   historical_data_cache, arrived, nticks, nconnects>>
    /\ UNCHANGED liveVars

\* self.kws.close(); self.is_connected = False (lines 265-266)
DisconnectClose ==
    /\ mpc = "flush"
    /\ mleft = {}
    /\ conn' = "closed"
    /\ is_connected' = FALSE
    /\ streamSubs' = {}
    /\ mpc' = "idle"
    /\ UNCHANGED <<now, subscribed_instruments, ticks_buffer, candles, last_candle_time,
                   lock, reconnected, tpc, ttok, tstart, mleft, mtok,
                   historical_data_cache, arrived, nticks, nconnects>>
    /\ UNCHANGED liveVars

\* the wall clock enters the next interval (the two clock reads made for
\* one tick, lines 135 and 149, fall in the same interval)
AdvanceTime ==
    /\ now < MaxTime
    /\ tpc # "check"
    /\ now' = now + 1
    /\ UNCHANGED <<conn, is_connected, subscribed_instruments, ticks_buffer, candles,
                   last_candle_time, lock, streamSubs, reconnected, tpc, ttok, tstart,
                   mpc, mleft, mtok, historical_data_cache, arrived, nticks, nconnects>>
    /\ UNCHANGED liveVars

(***************************************************************************)
(* Trading core: signals, positions, risk                                  *)
(* Prices are integers. stop_loss and take_profit are kept in hundredths   *)
(* of a price unit, so that 2% and 4% of an integer price are exact; the   *)
(* MACD histogram is kept in thousandths of a price unit.                  *)
(***************************************************************************)
NumStocks == 2
MaxLivePositions == 3     \* positions opened in one live run
MaxCapsPositions == 10    \* positions opened in a run that fills the portfolio
MaxOrderPositions == 2    \* positions opened in a run with refused orders
MaxCapsSteps == 7         \* 5-minute steps of a simulated day that fills the portfolio
MaxRunSteps == 3          \* 5-minute steps of a simulated day that is run twice
MaxLossSteps == 4         \* 5-minute steps of a simulated day with losing closes
MaxShutdownPositions == 2 \* positions opened in a run that is shut down
MaxSizingSteps == 6       \* 5-minute steps of a simulated day with a configured cap
MaxCloseAttempts == 2     \* SELL orders sent for a position whose close can fail
MaxStoredLosses == 4      \* consecutive losses in the day's performance row
Capitals == {1000}        \* account capital
HistogramValues == {0 - 200, 0 - 50, 0, 50}     \* MACD histogram, thousandths
ClosePrices == {0, 97, 98, 99, 100, 101, 103, 104, 105, 106}
EntryPrices == {100, 101}
PortfolioPnls == {0 - 200, 0 - 180, 0 - 179, 0, 179, 180, 200}
Stocks == 1..NumStocks

Threads == {"cycle", "eod"}

max_positions_per_stock == 6    \* execution_engine.py:215, simulator.py:319
MAX_POSITIONS == 9              \* config.py:24 (default)
circuit_breaker_losses == 3     \* risk_manager.py:22
max_daily_drawdown_percent == 18

\* indicators = {}: every .get() falls back to its default
NoIndicators ==
    [current_price |-> 0, price_above_cloud |-> FALSE, price_below_cloud |-> FALSE,
     tenkan_above_kijun |-> FALSE, cloud_green |-> FALSE,
     macd_above_signal |-> FALSE, histogram |-> 0, histogram_rising |-> FALSE]

\* check_entry_conditions: number of the five conditions that are met
NumConditionsMet(ind) ==
    Cardinality({c \in 1..5 :
        \/ c = 1 /\ ind.price_above_cloud
        \/ c = 2 /\ ind.tenkan_above_kijun
        \/ c = 3 /\ ind.cloud_green
        \/ c = 4 /\ ind.macd_above_signal
        \/ c = 5 /\ Truthy(ind.histogram) /\ ind.histogram > 0 /\ ind.histogram_rising})

\* generate_entry_signal returns a signal
generate_entry_signal(ind) == NumConditionsMet(ind) >= 2

\* a check_entry_conditions that asks for three conditions
check_entry_conditions_three(ind) ==
    LET n == NumConditionsMet(ind)
    IN  [signal |-> n >= 3,
         strength |-> IF n < 3 THEN "" ELSE IF n >= 4 THEN "Strong" ELSE "Moderate"]

\* check_entry_conditions: signal_present and the strength the reason
\* starts with, "" without a signal (signal_generator.py:68-79)
check_entry_conditions(ind) ==
    LET num_conditions_met == NumConditionsMet(ind)
        min_required == 2
    IN  IF num_conditions_met >= min_required
        THEN [signal |-> TRUE,
              strength |-> IF num_conditions_met >= 4 THEN "Strong"
                           ELSE IF num_conditions_met >= 3 THEN "Moderate"
                           ELSE "Weak"]
        ELSE [signal |-> FALSE, strength |-> ""]

\* a check_exit_conditions that looks at the technical exits first
check_exit_conditions_technical_first(ind, pos) ==
    LET cp == ind.current_price
        losing == cp < pos.entry_price
    IN  IF ~Truthy(cp) \/ pos.entry_price = 0 THEN ""
        ELSE IF losing /\ ~ind.macd_above_signal /\ Truthy(ind.histogram)
                /\ ind.histogram < 0 /\ ind.histogram < 0 - pos.entry_price
             THEN "MACD_REVERSAL"
        ELSE IF losing /\ ind.price_below_cloud
                /\ (cp - pos.entry_price) * 200 <= 0 - pos.entry_price
             THEN "PRICE_BELOW_CLOUD"
        ELSE IF Truthy(pos.take_profit) /\ cp * 100 >= pos.take_profit THEN "TAKE_PROFIT"
        ELSE IF Truthy(pos.stop_loss) /\ cp * 100 <= pos.stop_loss THEN "STOP_LOSS"
        ELSE ""

\* a check_exit_conditions whose technical exits ignore the sign of the P&L
check_exit_conditions_any_pnl(ind, pos) ==
    LET cp == ind.current_price
    IN  IF ~Truthy(cp) \/ pos.entry_price = 0 THEN ""
        ELSE IF Truthy(pos.take_profit) /\ cp * 100 >= pos.take_profit THEN "TAKE_PROFIT"
        ELSE IF Truthy(pos.stop_loss) /\ cp * 100 <= pos.stop_loss THEN "STOP_LOSS"
        ELSE IF ~ind.macd_above_signal /\ Truthy(ind.histogram)
                /\ ind.histogram < 0 /\ ind.histogram < 0 - pos.entry_price
             THEN "MACD_REVERSAL"
        ELSE IF ind.price_below_cloud THEN "PRICE_BELOW_CLOUD"
        ELSE ""

\* check_exit_conditions: the exit reason, "" when no exit is triggered
check_exit_conditions(ind, pos) ==
    LET cp == ind.current_price
        losing == cp < pos.entry_price          \* pnl_percent < 0
    IN  IF ~Truthy(cp) THEN ""
        ELSE IF pos.entry_price = 0 THEN ""     \* pnl_percent raises, caught
        ELSE IF Truthy(pos.take_profit) /\ cp * 100 >= pos.take_profit THEN "TAKE_PROFIT"
        ELSE IF Truthy(pos.stop_loss) /\ cp * 100 <= pos.stop_loss THEN "STOP_LOSS"
        ELSE IF losing /\ ~ind.macd_above_signal /\ Truthy(ind.histogram)
                /\ ind.histogram < 0 /\ ind.histogram < 0 - pos.entry_price
             THEN "MACD_REVERSAL"
        ELSE IF losing /\ ind.price_below_cloud
                /\ (cp - pos.entry_price) * 200 <= 0 - pos.entry_price
             THEN "PRICE_BELOW_CLOUD"
        ELSE ""

\* calculate_position_size and the quantity bought (POSITION_SIZE_PERCENT = 11.11)
Quantity(capital, price) == (capital * 1111) \div (10000 * price)

calculate_stop_loss(entry_price)   == entry_price * 98
calculate_take_profit(entry_price) == entry_price * 104

\* a status_map without the legacy reason
StatusOfCurrentReasons(exit_reason) ==
    CASE exit_reason = "TAKE_PROFIT" -> "CLOSED_PROFIT"
      [] exit_reason \in {"PRICE_BELOW_CLOUD", "MACD_REVERSAL"} -> "CLOSED_REVERSAL"
      [] exit_reason = "EOD" -> "CLOSED_EOD"
      [] OTHER -> "CLOSED_LOSS"

\* close_position: status_map
StatusOf(exit_reason) ==
    CASE exit_reason = "TAKE_PROFIT" -> "CLOSED_PROFIT"
      [] exit_reason = "STOP_LOSS" -> "CLOSED_LOSS"
      [] exit_reason \in {"PRICE_BELOW_CLOUD", "MACD_CROSSED_BELOW_SIGNAL", "MACD_REVERSAL"}
            -> "CLOSED_REVERSAL"
      [] exit_reason = "EOD" -> "CLOSED_EOD"
      [] OTHER -> "CLOSED_LOSS"

\* ids of the rows selected by get_active_positions / get_positions_by_symbol
ActiveIds == SelectSeq([i \in 1..Len(positions) |-> i],
                       LAMBDA i : positions[i].status = "ACTIVE")
ActiveIdsOf(stock) == SelectSeq(ActiveIds, LAMBDA i : positions[i].stock_symbol = stock)

\* a new row of the performance table: the counts and the total P&L take
\* their column defaults (models/performance.py:19-27)
Performance(consecutive_losses) ==
    [consecutive_losses |-> consecutive_losses,
     total_trades |-> 0, winning_trades |-> 0, losing_trades |-> 0, total_pnl |-> 0]

\* RiskManager
check_position_limit(current_active_positions) ==
    ~(current_active_positions >= max_positions)

check_circuit_breaker ==
    ~(performance # <<>> /\ performance[1].consecutive_losses >= circuit_breaker_losses)

Abs(x) == IF x < 0 THEN 0 - x ELSE x

check_daily_drawdown_limit(portfolio_pnl, capital) ==
    IF capital <= 0 THEN TRUE
    ELSE ~(Abs(portfolio_pnl) * 100 >= max_daily_drawdown_percent * capital)

\* a should_trade that applies the drawdown limit to gains as well
should_trade_any_pnl(current_active_positions, portfolio_pnl, capital) ==
    /\ check_position_limit(current_active_positions)
    /\ check_circuit_breaker
    /\ check_daily_drawdown_limit(portfolio_pnl, capital)

should_trade(current_active_positions, portfolio_pnl, capital) ==
    /\ check_position_limit(current_active_positions)
    /\ check_circuit_breaker
    /\ (portfolio_pnl < 0 => check_daily_drawdown_limit(portfolio_pnl, capital))

\* calculate_portfolio_drawdown: the unrealized P&L of the positions `ids`
\* at current_prices; a position without a price adds nothing
\* (risk_manager.py:64-82)
RECURSIVE calculate_portfolio_drawdown(_, _)
calculate_portfolio_drawdown(ids, current_prices) ==
    IF ids = <<>> THEN 0
    ELSE LET position == positions[Head(ids)]
             current_price == Get(current_prices, position.stock_symbol, 0)
         IN  (IF Truthy(current_price)
              THEN (current_price - position.entry_price) * position.quantity
              ELSE 0)
             + calculate_portfolio_drawdown(Tail(ids), current_prices)

\* increment_consecutive_losses / reset_consecutive_losses: the row after the call
\* a circuit breaker that refuses trading when the read of the day's row raises
check_circuit_breaker_fail_closed(read_raises) ==
    IF read_raises THEN FALSE
    ELSE check_circuit_breaker

\* check_circuit_breaker with the outcome of the query of the day's row:
\* when it raises, the except branch allows trading (risk_manager.py:42-63)
check_circuit_breaker_read(read_raises) ==
    IF read_raises THEN TRUE
    ELSE check_circuit_breaker

\* should_trade when the query made by check_circuit_breaker raises or not
\* (risk_manager.py:108-131)
should_trade_read(current_active_positions, portfolio_pnl, capital, read_raises) ==
    /\ check_position_limit(current_active_positions)
    /\ check_circuit_breaker_read(read_raises)
    /\ (portfolio_pnl < 0 => check_daily_drawdown_limit(portfolio_pnl, capital))

IncrementedLosses ==
    IF performance = <<>> THEN <<Performance(1)>>
    ELSE <<[performance[1] EXCEPT !.consecutive_losses = @ + 1]>>

ResetLosses ==
    IF performance = <<>> THEN <<>>
    ELSE <<[performance[1] EXCEPT !.consecutive_losses = 0]>>

\* create_position: the inserted row (position_manager.py:31-41)
NewPosition(stock, price, quantity) ==
    [stock_symbol |-> stock, entry_price |-> price, quantity |-> quantity,
     stop_loss |-> calculate_stop_loss(price),
     take_profit |-> calculate_take_profit(price),
     status |-> "ACTIVE", exit_price |-> None, exit_time |-> None,
     exit_reason |-> "", pnl |-> 0]

\* close_position: the row after the call (position_manager.py:209-230)
ClosedRow(pos, exit_price, exit_reason) ==
    [pos EXCEPT !.exit_price = exit_price,
                !.exit_time = now,
                !.pnl = (exit_price - pos.entry_price) * pos.quantity,
                !.exit_reason = exit_reason,
                !.status = StatusOf(exit_reason)]

\* a per-stock gate that lets every entry through
NoPerStockGate(stock) == TRUE

\* _check_entry_signals passes the per-stock and the portfolio gate
PerStockGate(stock) == ~(Len(ActiveIdsOf(stock)) >= max_positions_per_stock)
PortfolioGate == should_trade(Len(ActiveIds), 0, initial_capital)

\* OrderManager.execute_entry has returned nothing yet
NoOrders ==
    [calls |-> <<>>, buy_order |-> None, stop_loss_order |-> None,
     take_profit_order |-> None]

\* place_market_order, place_stop_loss_order, place_take_profit_order: the
\* call made and the order id it returns, None when the broker call raises
\* (order_manager.py:24-83)
Placement(order_type, transaction_type, accepted, id) ==
    [order_type |-> order_type, transaction_type |-> transaction_type,
     order_id |-> IF accepted THEN id ELSE None]

\* an execute_entry that places the protective orders whatever the BUY returned
execute_entry_unguarded(stop_loss, take_profit, buy_ok, sl_ok, tp_ok) ==
    LET buy == Placement("MARKET", "BUY", buy_ok, 1)
        sl == Placement("SL-M", "SELL", sl_ok, 2)
        tp == Placement("LIMIT", "SELL", tp_ok, 3)
    IN  [calls |-> <<buy, sl, tp>>, buy_order |-> buy.order_id,
         stop_loss_order |-> sl.order_id, take_profit_order |-> tp.order_id]

\* OrderManager.execute_entry: the placement calls it makes, in order, and
\* the three ids it returns (order_manager.py:101-140)
execute_entry(stop_loss, take_profit, buy_ok, sl_ok, tp_ok) ==
    LET buy == Placement("MARKET", "BUY", buy_ok, 1)
        sl == IF Truthy(stop_loss) THEN <<Placement("SL-M", "SELL", sl_ok, 2)>> ELSE <<>>
        tp == IF Truthy(take_profit) THEN <<Placement("LIMIT", "SELL", tp_ok, 3)>> ELSE <<>>
        IdOf(placed) == IF placed = <<>> THEN None ELSE placed[1].order_id
    IN  IF buy.order_id = None
        THEN [calls |-> <<buy>>, buy_order |-> None, stop_loss_order |-> None,
              take_profit_order |-> None]
        ELSE [calls |-> <<buy>> \o sl \o tp, buy_order |-> buy.order_id,
              stop_loss_order |-> IdOf(sl), take_profit_order |-> IdOf(tp)]

\* a check that records a position whatever the BUY returned
AlwaysPlaced(order_ids) == TRUE

\* _execute_entry: if order_ids.get("buy_order") (execution_engine.py:291)
BuyPlaced(order_ids) == order_ids.buy_order # None

\* the protective orders of an entry that the broker holds as pending
PendingOf(order_ids) ==
    {id \in {order_ids.stop_loss_order, order_ids.take_profit_order} : id # None}

\* the order_ids _execute_exit hands to execute_exit (execution_engine.py:325)
ExitOrderIds == <<>>

\* OrderManager.execute_exit: the pending orders left once every id of
\* order_ids is cancelled (order_manager.py:147-150)
AfterCancel(pending, order_ids) ==
    pending \ {order_ids[i] : i \in 1..Len(order_ids)}

xVars == <<xpc, xpos, xprice, xreason>>
cVars == <<cpc, cstock, cind, cleft, centry, corders>>
brokerVars == <<pending_orders>>
eVars == <<epc, eleft>>
dbVars == <<positions, performance>>
histVars == <<sells, closes, lossStreak, lastCloseWon>>
bootVars == <<engine, access_token, watchlist_store, instruments, watchlist,
              stock_to_instrument_token, scheduler_jobs, scheduler_running,
              bpc, stoppc, stops_in_row>>
cfgVars == <<max_positions, initial_capital, posBudget, is_running, bootVars>>
callVars == <<call>>
runVars == <<historical_data, srun, sim_prev>>
simVars == <<sim_positions, trades, totals, spc, sstock, stime, runVars>>

----------------------------------------------------------------------------
\* process_candle up to the query of the stock's active positions
\* (execution_engine.py:167-197); ind is what get_indicators returns
CandleClose(stock, ind) ==
    /\ is_running
    /\ cpc = "idle"
    /\ generate_entry_signal(ind) => Len(positions) < posBudget
    /\ cpc' = "exits"
    /\ cstock' = stock
    /\ cind' = ind
    /\ cleft' = ActiveIdsOf(stock)
    /\ UNCHANGED <<centry, corders, eVars, xVars, dbVars, histVars, brokerVars, cfgVars, callVars, simVars, aggVars>>

\* beginning of _execute_exit on thread th for position p
StartExit(th, p, reason) ==
    /\ xpc' = [xpc EXCEPT ![th] = "start"]
    /\ xpos' = [xpos EXCEPT ![th] = p]
    /\ xreason' = [xreason EXCEPT ![th] = reason]
    /\ UNCHANGED xprice

\* one turn of the loop over the stock's positions: _check_exit_signals
\* (execution_engine.py:199-202, 241-260)
CycleCheckExit ==
    /\ cpc = "exits"
    /\ xpc["cycle"] = "none"
    /\ cleft # <<>>
    /\ cleft' = Tail(cleft)
    /\ LET p == Head(cleft)
           reason == check_exit_conditions(cind, positions[p])
       IN  IF reason # ""
           THEN StartExit("cycle", p, reason)
           ELSE UNCHANGED xVars
    /\ UNCHANGED <<cpc, cstock, cind, centry, corders, eVars, dbVars, histVars, brokerVars, cfgVars, callVars, simVars, aggVars>>

\* _execute_exit: quote fetched, market SELL sent (execution_engine.py:309-326,
\* order_manager.py:142-156)
ExecuteExitOrder(th, price) ==
    /\ xpc[th] = "start"
    /\ xpc' = [xpc EXCEPT ![th] = "ordered"]
    /\ xprice' = [xprice EXCEPT ![th] = price]
    /\ pending_orders' = [pending_orders EXCEPT ![xpos[th]] = AfterCancel(@, ExitOrderIds)]
    /\ sells' = [sells EXCEPT ![xpos[th]] = @ + 1]
    /\ UNCHANGED <<xpos, xreason, cVars, eVars, dbVars, closes, lossStreak, lastCloseWon,
                   cfgVars, callVars, simVars, aggVars>>

\* _execute_exit: no quote or no price, return (execution_engine.py:310-317)
ExecuteExitNoQuote(th) ==
    /\ xpc[th] = "start"
    /\ xpc' = [xpc EXCEPT ![th] = "none"]
    /\ xpos' = [xpos EXCEPT ![th] = 0]
    /\ xreason' = [xreason EXCEPT ![th] = ""]
    /\ UNCHANGED <<xprice, cVars, eVars, dbVars, histVars, brokerVars, cfgVars, callVars, simVars, aggVars>>

\* _execute_exit: close_position (execution_engine.py:329)
ExecuteExitClose(th) ==
    /\ xpc[th] = "ordered"
    /\ xpc' = [xpc EXCEPT ![th] = "closed"]
    /\ LET p == xpos[th]
           row == ClosedRow(positions[p], xprice[th], xreason[th])
       IN  /\ positions' = [positions EXCEPT ![p] = row]
           /\ closes' = [closes EXCEPT ![p] = @ + 1]
           /\ lossStreak' = IF row.pnl > 0 THEN 0
                            ELSE IF row.pnl < 0 THEN lossStreak + 1
                            ELSE lossStreak
           /\ lastCloseWon' = (row.pnl > 0)
    /\ UNCHANGED <<xpos, xprice, xreason, cVars, eVars, performance, sells, brokerVars,
                   cfgVars, callVars, simVars, aggVars>>

\* the performance update with a break-even close counted as a win
ExecuteExitPerfBreakEvenWins(th) ==
    /\ xpc[th] = "closed"
    /\ LET pnl == positions[xpos[th]].pnl
           is_win == pnl >= 0
       IN  performance' = IF ~is_win THEN IncrementedLosses ELSE ResetLosses
    /\ xpc' = [xpc EXCEPT ![th] = "none"]
    /\ xpos' = [xpos EXCEPT ![th] = 0]
    /\ xprice' = [xprice EXCEPT ![th] = 0]
    /\ xreason' = [xreason EXCEPT ![th] = ""]
    /\ UNCHANGED <<cVars, eVars, positions, histVars, brokerVars, cfgVars, callVars, simVars, aggVars>>

\* _execute_exit: performance update from position.pnl (execution_engine.py:332-338)
ExecuteExitPerf(th) ==
    /\ xpc[th] = "closed"
    /\ LET pnl == positions[xpos[th]].pnl
           is_win == pnl > 0
       IN  performance' = IF ~is_win THEN IncrementedLosses ELSE ResetLosses
    /\ xpc' = [xpc EXCEPT ![th] = "none"]
    /\ xpos' = [xpos EXCEPT ![th] = 0]
    /\ xprice' = [xprice EXCEPT ![th] = 0]
    /\ xreason' = [xreason EXCEPT ![th] = ""]
    /\ UNCHANGED <<cVars, eVars, positions, histVars, brokerVars, cfgVars, callVars, simVars, aggVars>>

\* _execute_exit: close_position fails - the row is not found, or the commit
\* raises and is rolled back - and returns None (position_manager.py:200-208,
\* 239-242); the row stays as it was
ExecuteExitCloseFails(th) ==
    /\ xpc[th] = "ordered"
    /\ sells[xpos[th]] < MaxCloseAttempts
    /\ xpc' = [xpc EXCEPT ![th] = "closed"]
    /\ UNCHANGED <<xpos, xprice, xreason, cVars, eVars, dbVars, histVars, brokerVars,
                   cfgVars, callVars, simVars, aggVars>>

\* _execute_exit after a failed close: reading position.pnl of the expired
\* row raises as well, the exception is logged (execution_engine.py:332,
\* 340-341)
ExecuteExitReadFails(th) ==
    /\ xpc[th] = "closed"
    /\ positions[xpos[th]].status = "ACTIVE"
    /\ xpc' = [xpc EXCEPT ![th] = "none"]
    /\ xpos' = [xpos EXCEPT ![th] = 0]
    /\ xprice' = [xprice EXCEPT ![th] = 0]
    /\ xreason' = [xreason EXCEPT ![th] = ""]
    /\ UNCHANGED <<cVars, eVars, dbVars, histVars, brokerVars, cfgVars, callVars, simVars, aggVars>>

\* process_candle returns
CycleReturn ==
    /\ cpc' = "idle"
    /\ cstock' = 0
    /\ cind' = NoIndicators
    /\ cleft' = <<>>
    /\ centry' = <<>>
    /\ corders' = NoOrders

\* _check_entry_signals and _execute_entry up to the return of
\* order_manager.execute_entry (execution_engine.py:210-239, 262-288);
\* bought, sl_ok, tp_ok = the broker accepted the order
CycleCheckEntry(bought, sl_ok, tp_ok) ==
    /\ cpc = "exits"
    /\ xpc["cycle"] = "none"
    /\ cleft = <<>>
    /\ LET price == cind.current_price
           quantity == Quantity(initial_capital, price)
           row == NewPosition(cstock, price, quantity)
       IN  IF /\ PerStockGate(cstock)
              /\ PortfolioGate
              /\ generate_entry_signal(cind)
              /\ Truthy(price)
              /\ quantity > 0
           THEN /\ cpc' = "create"
                /\ centry' = <<row>>
                /\ corders' = execute_entry(row.stop_loss, row.take_profit,
                                            bought, sl_ok, tp_ok)
                /\ UNCHANGED <<cstock, cind, cleft>>
           ELSE CycleReturn
    /\ UNCHANGED <<eVars, xVars, dbVars, histVars, brokerVars, cfgVars, callVars, simVars, aggVars>>

\* _execute_entry after the orders: create_position when the BUY returned an
\* order id (execution_engine.py:290-303)
CycleCreatePosition ==
    /\ cpc = "create"
    /\ IF BuyPlaced(corders)
       THEN /\ positions' = Append(positions, centry[1])
            /\ pending_orders' = Append(pending_orders, PendingOf(corders))
            /\ sells' = Append(sells, 0)
            /\ closes' = Append(closes, 0)
       ELSE UNCHANGED <<positions, pending_orders, sells, closes>>
    /\ CycleReturn
    /\ UNCHANGED <<eVars, xVars, performance, lossStreak, lastCloseWon, cfgVars, callVars, simVars, aggVars>>

----------------------------------------------------------------------------
\* handle_end_of_day: the active positions are queried (execution_engine.py:350)
EodBegin ==
    /\ is_running
    /\ epc = "idle"
    /\ eleft' = ActiveIds
    /\ epc' = IF ActiveIds = <<>> THEN "idle" ELSE "loop"
    /\ UNCHANGED <<cVars, xVars, dbVars, histVars, brokerVars, cfgVars, callVars, simVars, aggVars>>

\* one turn of the square-off loop (execution_engine.py:352-354)
EodNextExit ==
    /\ epc = "loop"
    /\ xpc["eod"] = "none"
    /\ eleft # <<>>
    /\ eleft' = Tail(eleft)
    /\ StartExit("eod", Head(eleft), "EOD")
    /\ UNCHANGED <<epc, cVars, dbVars, histVars, brokerVars, cfgVars, callVars, simVars, aggVars>>

\* handle_end_of_day returns
EodReturn ==
    /\ epc = "loop"
    /\ xpc["eod"] = "none"
    /\ eleft = <<>>
    /\ epc' = "idle"
    /\ UNCHANGED <<eleft, cVars, xVars, dbVars, histVars, brokerVars, cfgVars, callVars, simVars, aggVars>>

----------------------------------------------------------------------------
(***************************************************************************)
(* TradingSimulator (simulation/simulator.py); the entry times of the      *)
(* simulated positions are not modelled                                    *)
(***************************************************************************)
SimActive == SelectSeq([i \in 1..Len(sim_positions) |-> i],
                       LAMBDA i : sim_positions[i].status = "ACTIVE")
SimActiveOf(stock) == SelectSeq(SimActive, LAMBDA i : sim_positions[i].stock = stock)

\* end_time as a step index: the loop runs while current <= end_time
SimEndTime == Len(historical_data)

\* _get_indicators_for_stock(stock, current_time); NoIndicators when there
\* are fewer than 52 candles up to current_time (simulator.py:217-269)
SimIndicatorsAt(stock, time) == historical_data[time][stock]

\* quantity bought by _check_entry (simulator.py:344-346)
SimQuantity(capital, price) ==
    LET max_stocks == IF NumStocks > 9 THEN NumStocks ELSE 9
    IN  capital \div (max_stocks * price)

\* a _check_exit that knows the stop and the target only
SimExitReasonStopAndTarget(ind, pos) ==
    LET cp == ind.current_price
    IN  IF ~Truthy(cp) THEN ""
        ELSE IF cp * 100 <= pos.stop_loss THEN "STOP_LOSS"
        ELSE IF cp * 100 >= pos.take_profit THEN "TAKE_PROFIT"
        ELSE ""

\* _check_exit: the exit reason, "" when the position stays open
\* (simulator.py:399-421)
SimExitReason(ind, pos) ==
    LET cp == ind.current_price
    IN  IF ~Truthy(cp) THEN ""
        ELSE IF cp * 100 <= pos.stop_loss THEN "STOP_LOSS"
        ELSE IF cp * 100 >= pos.take_profit THEN "TAKE_PROFIT"
        ELSE check_exit_conditions(ind, pos)

\* _check_exit: the position after the call (simulator.py:423-435)
SimCheckExit(ind, pos) ==
    IF SimExitReason(ind, pos) = "" THEN pos
    ELSE [pos EXCEPT !.exit_price = ind.current_price,
                     !.exit_time = stime,
                     !.pnl = (ind.current_price - pos.entry_price) * pos.quantity,
                     !.exit_reason = SimExitReason(ind, pos),
                     !.status = "CLOSED"]

SimPerStockGate(stock) == ~(Len(SimActiveOf(stock)) >= max_positions_per_stock)
SimPortfolioGate == should_trade(Len(SimActive), 0, initial_capital)

\* the BUY trade _check_entry records for the position it has appended
\* (simulator.py:366-383)
BuyTrade(pos, id, current_time) ==
    [timestamp |-> current_time, stock |-> pos.stock, action |-> "BUY",
     price |-> pos.entry_price, exit_reason |-> "", position |-> id]

\* a SELL trade stamped with the start of the day
SellTradeAtOpen(pos, id) ==
    [timestamp |-> 0, stock |-> pos.stock, action |-> "SELL",
     price |-> pos.exit_price, exit_reason |-> pos.exit_reason, position |-> id]

\* the SELL trade _check_exit and _close_all_positions record for the
\* position they have closed: its timestamp is the exit time
\* (simulator.py:438-454, 516-530)
SellTrade(pos, id) ==
    [timestamp |-> pos.exit_time, stock |-> pos.stock, action |-> "SELL",
     price |-> pos.exit_price, exit_reason |-> pos.exit_reason, position |-> id]

\* the SELL trades of the positions closed between the lists before and
\* after, in the order of the list
SellTrades(before, after) ==
    LET ids == SelectSeq([i \in 1..Len(before) |-> i],
                         LAMBDA i : before[i].status = "ACTIVE"
                                    /\ after[i].status = "CLOSED")
    IN  [k \in 1..Len(ids) |-> SellTrade(after[ids[k]], ids[k])]

\* the ledger and the counters after the positions went from before to after
RecordExits(before, after) ==
    /\ trades' = trades \o SellTrades(before, after)
    /\ totals' = [totals EXCEPT !.total_exits = @ + Len(SellTrades(before, after))]

NoTotals == [total_entries |-> 0, total_exits |-> 0]

\* a loop that processes the exits and then the entry of one stock before
\* it moves on to the next stock
SimAdvancePerStock(next_pass) ==
    IF next_pass = "entries"
    THEN spc' = "entries" /\ UNCHANGED <<sstock, stime>>
    ELSE IF sstock < NumStocks
    THEN sstock' = sstock + 1 /\ spc' = "exits" /\ UNCHANGED stime
    ELSE IF stime + 1 <= SimEndTime
    THEN sstock' = 1 /\ spc' = "exits" /\ stime' = stime + 1
    ELSE sstock' = 0 /\ spc' = "close" /\ UNCHANGED stime

\* the loop moves on to the next stock, to the next pass, to the next
\* 5-minute step, or ends after the step of end_time (simulator.py:204-215)
SimAdvance(next_pass) ==
    IF sstock < NumStocks
    THEN sstock' = sstock + 1 /\ UNCHANGED <<spc, stime>>
    ELSE IF next_pass = "entries"
    THEN sstock' = 1 /\ spc' = "entries" /\ UNCHANGED stime
    ELSE IF stime + 1 <= SimEndTime
    THEN sstock' = 1 /\ spc' = "exits" /\ stime' = stime + 1
    ELSE sstock' = 0 /\ spc' = "close" /\ UNCHANGED stime

\* _process_exits_at_time for the stock the loop is at (simulator.py:271-291)
SimProcessExits ==
    /\ spc = "exits"
    /\ LET ind == SimIndicatorsAt(sstock, stime)
       IN  sim_positions' =
              IF ind = NoIndicators THEN sim_positions
              ELSE [i \in 1..Len(sim_positions) |->
                       IF sim_positions[i].stock = sstock /\ sim_positions[i].status = "ACTIVE"
                       THEN SimCheckExit(ind, sim_positions[i])
                       ELSE sim_positions[i]]
    /\ RecordExits(sim_positions, sim_positions')
    /\ SimAdvance("entries")
    /\ UNCHANGED <<runVars, cVars, eVars, xVars, dbVars, histVars, brokerVars, cfgVars, callVars, aggVars>>

\* _process_entries_at_time for the stock the loop is at (simulator.py:293-390)
SimProcessEntries ==
    /\ spc = "entries"
    /\ LET ind == SimIndicatorsAt(sstock, stime)
           price == ind.current_price
           quantity == SimQuantity(initial_capital, price)
       IN  /\ generate_entry_signal(ind) => Len(sim_positions) < posBudget
           /\ IF /\ ind # NoIndicators
                 /\ SimPerStockGate(sstock)
                 /\ SimPortfolioGate
                 /\ generate_entry_signal(ind)
                 /\ Truthy(price)
                 /\ quantity > 0
              THEN /\ sim_positions' = Append(sim_positions,
                       [stock |-> sstock, entry_price |-> price, quantity |-> quantity,
                        stop_loss |-> calculate_stop_loss(price),
                        take_profit |-> calculate_take_profit(price),
                        status |-> "ACTIVE", exit_price |-> None, exit_time |-> None,
                        exit_reason |-> "", pnl |-> 0])
                   /\ totals' = [totals EXCEPT !.total_entries = @ + 1]
                   /\ trades' = Append(trades,
                          BuyTrade(sim_positions'[Len(sim_positions')],
                                   Len(sim_positions'), stime))
              ELSE UNCHANGED <<sim_positions, trades, totals>>
    /\ SimAdvance("exits")
    /\ UNCHANGED <<runVars, cVars, eVars, xVars, dbVars, histVars, brokerVars, cfgVars, callVars, aggVars>>

\* a square-off that leaves the position as it is
SimLeaveOpen(pos) == pos

\* _close_all_positions: close of the last candle of the position's stock at
\* or before end_time, the entry price when there is none (simulator.py:472-502)
SimLastClose(pos) ==
    LET ind == SimIndicatorsAt(pos.stock, SimEndTime)
    IN  IF ind = NoIndicators THEN pos.entry_price ELSE ind.current_price

\* _close_all_positions: the position after the square-off (simulator.py:504-514)
SimSquareOff(pos) ==
    [pos EXCEPT !.exit_price = SimLastClose(pos),
                !.exit_time = SimEndTime,
                !.pnl = (SimLastClose(pos) - pos.entry_price) * pos.quantity,
                !.exit_reason = "EOD",
                !.status = "CLOSED"]

\* the loop has ended; _close_all_positions, and run_simulation returns
\* (simulator.py:91, 463-532)
SimCloseAll ==
    /\ spc = "close"
    /\ sim_positions' =
          [i \in 1..Len(sim_positions) |->
              IF sim_positions[i].status = "ACTIVE"
              THEN SimSquareOff(sim_positions[i])
              ELSE sim_positions[i]]
    /\ RecordExits(sim_positions, sim_positions')
    /\ spc' = "done"
    /\ UNCHANGED <<sstock, stime, runVars, cVars, eVars, xVars, dbVars, histVars, brokerVars, cfgVars, callVars, aggVars>>

\* a new TradingSimulator is constructed with the same date, stock list and
\* capital and reads the same candles (simulator.py:25-71, 107-198)
SimNewRun ==
    /\ spc = "done"
    /\ srun = 1
    /\ srun' = 2
    /\ sim_prev' = sim_positions
    /\ sim_positions' = <<>>
    /\ trades' = <<>> /\ totals' = NoTotals
    /\ spc' = "exits" /\ sstock' = 1 /\ stime' = 1
    /\ UNCHANGED <<historical_data, cVars, eVars, xVars, dbVars, histVars, brokerVars, cfgVars, callVars, aggVars>>

\* the live path records a losing exit in today's performance row
\* (execution_engine.py:332-336, risk_manager.py:133-157)
LiveLosingExit ==
    /\ performance # <<>> => performance[1].consecutive_losses < circuit_breaker_losses
    /\ performance' = IncrementedLosses
    /\ UNCHANGED <<positions, cVars, eVars, xVars, histVars, brokerVars, cfgVars, callVars, simVars, aggVars>>

----------------------------------------------------------------------------
\* no function has been called yet
NoCall ==
    [fn |-> "none", indicators |-> NoIndicators, position_data |-> <<>>,
     args |-> <<>>, store |-> <<>>, result |-> <<>>]

\* SignalGenerator.check_entry_conditions(indicators) is called
\* (signal_generator.py:15-83)
CallCheckEntry(ind) ==
    /\ call' = [NoCall EXCEPT !.fn = "check_entry_conditions",
                              !.indicators = ind,
                              !.result = check_entry_conditions(ind)]
    /\ UNCHANGED <<dbVars, cVars, eVars, xVars, histVars, brokerVars, cfgVars, simVars, aggVars>>

\* SignalGenerator.check_exit_conditions(indicators, position_data) is
\* called (signal_generator.py:85-150)
CallCheckExit(ind, pos) ==
    /\ call' = [NoCall EXCEPT !.fn = "check_exit_conditions",
                              !.indicators = ind,
                              !.position_data = <<pos>>,
                              !.result = [exit_reason |-> check_exit_conditions(ind, pos)]]
    /\ UNCHANGED <<dbVars, cVars, eVars, xVars, histVars, brokerVars, cfgVars, simVars, aggVars>>

\* TradingSimulator._check_exit(stock, indicators, position, current_time)
\* is called; the result is the position after the call
\* (simulator.py:392-461)
CallSimCheckExit(ind, pos) ==
    /\ call.fn = "none"
    /\ call' = [NoCall EXCEPT !.fn = "_check_exit",
                              !.indicators = ind,
                              !.position_data = <<pos>>,
                              !.result = SimCheckExit(ind, pos)]
    /\ UNCHANGED <<dbVars, cVars, eVars, xVars, histVars, brokerVars, cfgVars, simVars, aggVars>>

\* TradingSimulator._check_entry(stock, indicators, current_time) is called;
\* the result is what the call adds to total_signals and to the positions
\* (simulator.py:310-390)
CallSimCheckEntry(stock, ind) ==
    /\ call.fn = "none"
    /\ LET price == ind.current_price
           quantity == SimQuantity(initial_capital, price)
           entry_signal == /\ SimPerStockGate(stock)
                           /\ SimPortfolioGate
                           /\ generate_entry_signal(ind)
           opened == entry_signal /\ Truthy(price) /\ quantity > 0
       IN  call' = [NoCall EXCEPT !.fn = "_check_entry",
                                  !.indicators = ind,
                                  !.args = <<stock>>,
                                  !.store = performance,
                                  !.result =
                                     [total_signals |-> IF entry_signal THEN 1 ELSE 0,
                                      positions |-> IF opened
                                                    THEN <<[stock |-> stock,
                                                            entry_price |-> price,
                                                            quantity |-> quantity]>>
                                                    ELSE <<>>]]
    /\ UNCHANGED <<dbVars, cVars, eVars, xVars, histVars, brokerVars, cfgVars, simVars, aggVars>>

\* RiskManager.should_trade(current_active_positions, portfolio_pnl,
\* initial_capital) is called (risk_manager.py:108-131)
CallShouldTrade(current_active_positions, portfolio_pnl, capital) ==
    /\ call' = [NoCall EXCEPT !.fn = "should_trade",
                              !.args = <<current_active_positions, portfolio_pnl, capital>>,
                              !.store = performance,
                              !.result = [allowed |-> should_trade(current_active_positions,
                                                                  portfolio_pnl, capital)]]
    /\ UNCHANGED <<dbVars, cVars, eVars, xVars, histVars, brokerVars, cfgVars, simVars, aggVars>>

----------------------------------------------------------------------------
\* PositionManager called on its own
MaxStorePositions == 1     \* rows inserted in a run of PositionManager calls

Quantities == {1, 3}

\* the exit reasons of the signal generator and of the end-of-day job, the
\* legacy reason of the status map, and reasons that it does not hold
ExitReasons == {"TAKE_PROFIT", "STOP_LOSS", "PRICE_BELOW_CLOUD", "MACD_REVERSAL",
                "MACD_CROSSED_BELOW_SIGNAL", "EOD", "MANUAL", ""}

\* create_position(stock, price, quantity, stop, target)
\* (position_manager.py:19-55)
CreatePosition(stock, price, quantity) ==
    /\ Len(positions) < posBudget
    /\ positions' = Append(positions, NewPosition(stock, price, quantity))
    /\ pending_orders' = Append(pending_orders, {})
    /\ sells' = Append(sells, 0)
    /\ closes' = Append(closes, 0)
    /\ UNCHANGED <<cVars, eVars, xVars, performance, lossStreak, lastCloseWon,
                   cfgVars, callVars, simVars, aggVars>>

\* close_position(position_id, exit_price, exit_reason) on an ACTIVE
\* position (position_manager.py:195-242)
ClosePosition(p, exit_price, exit_reason) ==
    /\ p \in 1..Len(positions)
    /\ positions[p].status = "ACTIVE"
    /\ LET row == ClosedRow(positions[p], exit_price, exit_reason)
       IN  /\ positions' = [positions EXCEPT ![p] = row]
           /\ closes' = [closes EXCEPT ![p] = @ + 1]
           /\ lossStreak' = IF row.pnl > 0 THEN 0
                            ELSE IF row.pnl < 0 THEN lossStreak + 1
                            ELSE lossStreak
           /\ lastCloseWon' = (row.pnl > 0)
    /\ UNCHANGED <<cVars, eVars, xVars, performance, sells, brokerVars,
                   cfgVars, callVars, simVars, aggVars>>

(***************************************************************************)
(* TechnicalAnalyzer (technical_analyzer.py). A component is a record, or  *)
(* <<>> for the empty dict. Inside the trend-cloud component prices are in *)
(* quarters of a price unit, so that the two halvings are exact; inside    *)
(* the momentum component they are fixed-point thousandths, rounded down   *)
(* at every step of an exponential average. NaN is None.                   *)
(***************************************************************************)
MaxWindow == 53        \* candles in a window handed to get_indicators

\* windows of n candles whose closes stay flat or rise by one each candle
WindowShapes == {"flat", "rising"}

Window(n, shape) ==
    [i \in 1..n |->
        LET c == IF shape = "flat" THEN 100 ELSE 100 + i
        IN  [open |-> c, high |-> c + 1, low |-> c - 1, close |-> c, volume |-> 1]]

Windows == {Window(n, shape) : n \in 0..MaxWindow, shape \in WindowShapes}

NaN == None

\* neither None, NaN nor zero
IsValue(x) == x # NaN /\ x # 0

\* series.rolling(window=w).max() and .min() at row i
RollingMax(s, i, w) == IF i < w THEN NaN ELSE SeqMax(SubSeq(s, i - w + 1, i))
RollingMin(s, i, w) == IF i < w THEN NaN ELSE SeqMin(SubSeq(s, i - w + 1, i))

\* calculate_ichimoku (lines 17-106)
calculate_ichimoku(df) ==
    IF Len(df) < 52 THEN <<>>
    ELSE
    LET n == Len(df)
        high == [i \in 1..n |-> df[i].high]
        low  == [i \in 1..n |-> df[i].low]
        tenkan_sen(i) == IF i < 9 THEN NaN
                         ELSE 2 * (RollingMax(high, i, 9) + RollingMin(low, i, 9))
        kijun_sen(i)  == IF i < 26 THEN NaN
                         ELSE 2 * (RollingMax(high, i, 26) + RollingMin(low, i, 26))
        span_a(i) == IF i < 26 THEN NaN ELSE (tenkan_sen(i) + kijun_sen(i)) \div 2
        span_b(i) == IF i < 52 THEN NaN
                     ELSE 2 * (RollingMax(high, i, 52) + RollingMin(low, i, 52))
        senkou_span_a(i) == IF i <= 26 THEN NaN ELSE span_a(i - 26)
        senkou_span_b(i) == IF i <= 26 THEN NaN ELSE span_b(i - 26)
        both == {i \in 1..n : senkou_span_a(i) # NaN /\ senkou_span_b(i) # NaN}
        back == CHOOSE i \in both : \A j \in both : j <= i
        look_back == (senkou_span_a(n) = NaN \/ senkou_span_b(n) = NaN) /\ both # {}
        current_senkou_a == IF look_back THEN senkou_span_a(back) ELSE senkou_span_a(n)
        current_senkou_b == IF look_back THEN senkou_span_b(back) ELSE senkou_span_b(n)
        cloud == IsValue(current_senkou_a) /\ IsValue(current_senkou_b)
        cloud_top == IF ~cloud THEN None
                     ELSE IF current_senkou_a > current_senkou_b
                     THEN current_senkou_a ELSE current_senkou_b
        cloud_bottom == IF ~cloud THEN None
                        ELSE IF current_senkou_a < current_senkou_b
                        THEN current_senkou_a ELSE current_senkou_b
        current_price == 4 * df[n].close
    IN  [tenkan_sen |-> tenkan_sen(n),
         kijun_sen |-> kijun_sen(n),
         senkou_span_a |-> IF IsValue(current_senkou_a) THEN current_senkou_a ELSE None,
         senkou_span_b |-> IF IsValue(current_senkou_b) THEN current_senkou_b ELSE None,
         chikou_span |-> None,
         cloud_top |-> cloud_top,
         cloud_bottom |-> cloud_bottom,
         price_above_cloud |-> IF IsValue(cloud_top) THEN current_price > cloud_top ELSE FALSE,
         price_below_cloud |-> IF IsValue(cloud_bottom) THEN current_price < cloud_bottom
                               ELSE FALSE,
         cloud_color |-> IF cloud /\ current_senkou_a > current_senkou_b
                         THEN "green" ELSE "red",
         current_price |-> current_price]

\* series.ewm(span=span, adjust=False).mean() at row i
RECURSIVE Ewm(_, _, _)
Ewm(s, span, i) ==
    IF i = 1 THEN s[1]
    ELSE (2 * s[i] + (span - 1) * Ewm(s, span, i - 1)) \div (span + 1)

\* calculate_macd with fast = 12, slow = 26, signal = 9 (lines 108-164)
calculate_macd(df) ==
    IF Len(df) < 26 + 9 THEN <<>>
    ELSE
    LET n == Len(df)
        close == [i \in 1..n |-> 1000 * df[i].close]
        macd_line == [i \in 1..n |-> Ewm(close, 12, i) - Ewm(close, 26, i)]
        signal_line(i) == Ewm(macd_line, 9, i)
        histogram(i) == macd_line[i] - signal_line(i)
    IN  [macd_line |-> macd_line[n],
         signal_line |-> signal_line(n),
         histogram |-> histogram(n),
         histogram_rising |-> histogram(n) > histogram(n - 1),
         macd_above_signal |-> macd_line[n] > signal_line(n)]

\* calculate_volume_indicator with period = 20 (lines 166-198); the
\* average is kept as the sum of the 20 volumes
calculate_volume_indicator(df) ==
    IF Len(df) < 20 THEN <<>>
    ELSE
    LET n == Len(df)
        total == SeqSum([i \in 1..20 |-> df[n - 20 + i].volume])
    IN  [current_volume |-> df[n].volume,
         volume_average |-> total,
         volume_above_average |-> 20 * df[n].volume > total]

\* a get_indicators that gives no component when one of them is empty
get_indicators_all_or_nothing(df) ==
    IF calculate_ichimoku(df) = <<>> \/ calculate_macd(df) = <<>>
       \/ calculate_volume_indicator(df) = <<>>
    THEN [ichimoku |-> <<>>, macd |-> <<>>, volume |-> <<>>]
    ELSE [ichimoku |-> calculate_ichimoku(df), macd |-> calculate_macd(df),
          volume |-> calculate_volume_indicator(df)]

\* get_indicators on a frame that has the OHLC columns (lines 200-237)
get_indicators(df) ==
    [ichimoku |-> calculate_ichimoku(df),
     macd |-> calculate_macd(df),
     volume |-> calculate_volume_indicator(df)]

\* TechnicalAnalyzer.get_indicators(df) is called
CallGetIndicators(df) ==
    /\ call.fn = "none"
    /\ call' = [NoCall EXCEPT !.fn = "get_indicators",
                              !.args = <<df>>,
                              !.result = get_indicators(df)]
    /\ UNCHANGED <<dbVars, cVars, eVars, xVars, histVars, brokerVars, cfgVars, simVars, aggVars>>

(***************************************************************************)
(* ExecutionEngine life cycle: construction, start_monitoring and          *)
(* stop_monitoring. A stock symbol s that the broker lists has instrument  *)
(* token s. The engine is started again only while its scheduler holds no  *)
(* job, that is until a start_monitoring has reached scheduler.start().    *)
(***************************************************************************)
MaxStops == 2          \* stop_monitoring calls counted in a row

\* what the watchlist storage may hold: no record, or a record with a set
\* of symbols (watchlist_manager.py:45-56)
WatchlistRecords == {<<>>} \cup {<<[watchlist |-> s]>> : s \in SUBSET Stocks}

\* a candle of the history that the broker returns for an instrument
HistoryCandle(tok) ==
    [instrument_token |-> tok, timestamp |-> None,
     open |-> 1, high |-> 1, low |-> 1, close |-> 1, volume |-> 1]

\* get_historical_data: no data, or one candle per instrument
HistoryFetches == {FALSE, TRUE}

\* everything of the trading core that the life cycle leaves alone
tradeVars == <<positions, cVars, eVars, xVars, histVars, brokerVars, callVars, simVars>>

\* ExecutionEngine.__init__ (lines 33-87): the capital is the override, or
\* is fetched from the account; a failed fetch raises and no engine exists
Construct(override, fetched) ==
    /\ engine = "none"
    /\ IF override # None
       THEN engine' = "constructed" /\ initial_capital' = override
       ELSE IF fetched # None
            THEN engine' = "constructed" /\ initial_capital' = fetched
            ELSE engine' = "failed" /\ UNCHANGED initial_capital
    /\ UNCHANGED <<access_token, watchlist_store, instruments, watchlist,
                   stock_to_instrument_token, scheduler_jobs, scheduler_running,
                   bpc, stoppc, stops_in_row>>
    /\ UNCHANGED <<tradeVars, performance, max_positions, posBudget, is_running, aggVars>>

\* reset_daily_counters: today's row is created when missing
\* (risk_manager.py:181-209)
reset_daily_counters ==
    IF performance = <<>> THEN <<Performance(0)>> ELSE performance

\* load_watchlist returns False: no record in the storage (lines 94-111)
load_watchlist == watchlist_store # <<>>

\* _initialize_instrument_tokens: the symbols of the watchlist that the
\* broker lists get their token (lines 113-132)
InitializedTokens(symbols) ==
    [s \in (DOMAIN stock_to_instrument_token) \cup (symbols \cap instruments) |-> s]

\* initialize_indicators: the fetched history replaces the cache of each
\* stock that has a token (lines 134-165)
InitializedCache(tokens, fetched) ==
    IF fetched
    THEN [t \in (DOMAIN historical_data_cache) \cup tokens |->
             IF t \in tokens THEN <<HistoryCandle(t)>> ELSE historical_data_cache[t]]
    ELSE historical_data_cache

\* start_monitoring up to the call of connect (lines 364-380)
StartLoad(fetched) ==
    /\ engine = "constructed"
    /\ bpc = "idle" /\ stoppc = "idle"
    /\ scheduler_jobs = {}
    /\ nconnects < MaxConnects
    /\ performance' = reset_daily_counters
    /\ stops_in_row' = 0
    /\ IF load_watchlist
       THEN /\ watchlist' = watchlist_store[1].watchlist
            /\ stock_to_instrument_token' = InitializedTokens(watchlist')
            /\ historical_data_cache' =
                   InitializedCache(DOMAIN stock_to_instrument_token', fetched)
            /\ bpc' = "connect"
       ELSE UNCHANGED <<watchlist, stock_to_instrument_token, historical_data_cache, bpc>>
    /\ UNCHANGED <<engine, access_token, watchlist_store, instruments,
                   scheduler_jobs, scheduler_running, stoppc>>
    /\ UNCHANGED <<tradeVars, max_positions, initial_capital, posBudget, is_running>>
    /\ UNCHANGED <<now, conn, is_connected, subscribed_instruments, ticks_buffer, candles,
                   last_candle_time, lock, streamSubs, reconnected, tpc, ttok, tstart,
                   mpc, mleft, mtok, arrived, nticks, nconnects>>

\* connect() returns True for any session
ConnectReturnsTrue(opened) == TRUE

\* what connect() returns: False without an access token, or when the
\* connection has not opened within the timeout (websocket_manager.py:44-82)
ConnectReturns(opened) == access_token /\ opened

\* start_monitoring from connect to scheduler.start() (lines 380-399); with
\* an access token connect() creates the ticker, which opens or is still
\* connecting when the wait ends
StartConnect(opened) ==
    /\ bpc = "connect"
    /\ IF access_token
       THEN /\ nconnects' = nconnects + 1
            /\ conn' = IF opened THEN "open" ELSE "retrying"
            /\ is_connected' = opened
            /\ reconnected' = FALSE
       ELSE UNCHANGED <<nconnects, conn, is_connected, reconnected>>
    /\ IF ConnectReturns(opened)
       THEN /\ LET toks == {stock_to_instrument_token[s] :
                               s \in DOMAIN stock_to_instrument_token}
               IN  IF toks # {} /\ is_connected'
                   THEN /\ streamSubs' = toks
                        /\ subscribed_instruments' = subscribed_instruments \cup toks
                   ELSE /\ streamSubs' = {}
                        /\ UNCHANGED subscribed_instruments
            /\ scheduler_jobs' = scheduler_jobs \cup {"end_of_day"}
            /\ is_running' = TRUE
            /\ scheduler_running' = TRUE
            /\ bpc' = "blocked"
       ELSE /\ streamSubs' = IF access_token THEN {} ELSE streamSubs
            /\ bpc' = "idle"
            /\ UNCHANGED <<subscribed_instruments, scheduler_jobs, is_running,
                           scheduler_running>>
    /\ UNCHANGED <<engine, access_token, watchlist_store, instruments, watchlist,
                   stock_to_instrument_token, stoppc, stops_in_row>>
    /\ UNCHANGED <<tradeVars, performance, max_positions, initial_capital, posBudget>>
    /\ UNCHANGED <<now, ticks_buffer, candles, last_candle_time, lock, tpc, ttok, tstart,
                   mpc, mleft, mtok, historical_data_cache, arrived, nticks>>

\* stop_monitoring up to the flush loop of disconnect (lines 405-412,
\* websocket_manager.py:256-260)
StopBegin ==
    /\ engine = "constructed"
    /\ bpc \in {"idle", "blocked"}
    /\ stoppc = "idle" /\ mpc = "idle"
    /\ stops_in_row < MaxStops
    /\ is_running' = FALSE
    /\ stoppc' = "disconnect"
    /\ IF conn # "none"
       THEN mpc' = "flush" /\ mleft' = DOMAIN ticks_buffer
       ELSE UNCHANGED <<mpc, mleft>>
    /\ UNCHANGED <<engine, access_token, watchlist_store, instruments, watchlist,
                   stock_to_instrument_token, scheduler_jobs, scheduler_running,
                   bpc, stops_in_row>>
    /\ UNCHANGED <<tradeVars, performance, max_positions, initial_capital, posBudget>>
    /\ UNCHANGED <<now, conn, is_connected, subscribed_instruments, ticks_buffer, candles,
                   last_candle_time, lock, streamSubs, reconnected, tpc, ttok, tstart,
                   mtok, historical_data_cache, arrived, nticks, nconnects>>

\* stop_monitoring after disconnect has returned: the scheduler is shut
\* down when running, and scheduler.start() returns (lines 414-416)
StopEnd ==
    /\ stoppc = "disconnect" /\ mpc = "idle"
    /\ stoppc' = "idle"
    /\ stops_in_row' = stops_in_row + 1
    /\ IF scheduler_running
       THEN /\ scheduler_running' = FALSE
            /\ bpc' = IF bpc = "blocked" THEN "idle" ELSE bpc
       ELSE UNCHANGED <<scheduler_running, bpc>>
    /\ UNCHANGED <<engine, access_token, watchlist_store, instruments, watchlist,
                   stock_to_instrument_token, scheduler_jobs>>
    /\ UNCHANGED <<tradeVars, performance, max_positions, initial_capital, posBudget,
                   is_running, aggVars>>

\* the candle-close callback on the stream thread ("tick") or on the thread
\* of disconnect ("main"): process_candle for the instrument's stock with
\* the snapshot ind that get_indicators returns, when no position of the
\* stock meets an exit condition; the entry check and _execute_entry follow
\* at once, and the callback returns (execution_engine.py:167-239, 262-303,
\* 340-342, websocket_manager.py:205-213)
CallbackProcessCandle(th, ind, bought) ==
    /\ \/ /\ th = "main" /\ mpc = "callback"
          /\ mpc' = "flush" /\ mtok' = NoToken
          /\ UNCHANGED tpc
       \/ /\ th = "tick" /\ tpc = "callback"
          /\ tpc' = "setlast"
          /\ UNCHANGED <<mpc, mtok>>
    /\ lock' = "free"
    /\ LET tok == IF th = "main" THEN mtok ELSE ttok
           symbols == {sym \in DOMAIN stock_to_instrument_token :
                          stock_to_instrument_token[sym] = tok}
           stock_symbol == CHOOSE sym \in symbols : TRUE
           price == ind.current_price
           quantity == Quantity(initial_capital, price)
           row == NewPosition(stock_symbol, price, quantity)
           order_ids == execute_entry(row.stop_loss, row.take_profit, bought, TRUE, TRUE)
       IN  IF symbols = {} \/ Len(Get(historical_data_cache, tok, <<>>)) < 52
           THEN UNCHANGED <<positions, pending_orders, sells, closes>>
           ELSE /\ \A p \in 1..Len(positions) :
                      (positions[p].status = "ACTIVE"
                          /\ positions[p].stock_symbol = stock_symbol) =>
                          check_exit_conditions(ind, positions[p]) = ""
                /\ generate_entry_signal(ind) => Len(positions) < posBudget
                /\ IF /\ PerStockGate(stock_symbol)
                      /\ PortfolioGate
                      /\ generate_entry_signal(ind)
                      /\ Truthy(price)
                      /\ quantity > 0
                      /\ BuyPlaced(order_ids)
                   THEN /\ positions' = Append(positions, row)
                        /\ pending_orders' = Append(pending_orders, PendingOf(order_ids))
                        /\ sells' = Append(sells, 0)
                        /\ closes' = Append(closes, 0)
                   ELSE UNCHANGED <<positions, pending_orders, sells, closes>>
    /\ UNCHANGED <<performance, cVars, eVars, xVars, lossStreak, lastCloseWon, cfgVars,
                   callVars, simVars>>
    /\ UNCHANGED <<now, conn, is_connected, subscribed_instruments, ticks_buffer, candles,
                   last_candle_time, streamSubs, reconnected, ttok, tstart, mleft,
                   historical_data_cache, arrived, nticks, nconnects>>

\* the WebSocketManager after construction (websocket_manager.py:17-42)
AggInit ==
    /\ now = 0
    /\ conn = "none"
    /\ is_connected = FALSE
    /\ subscribed_instruments = {}
    /\ ticks_buffer = <<>>
    /\ candles = <<>>
    /\ last_candle_time = <<>>
    /\ lock = "free"
    /\ streamSubs = {}
    /\ reconnected = FALSE
    /\ tpc = "idle" /\ ttok = NoToken /\ tstart = None
    /\ mpc = "idle" /\ mleft = {} /\ mtok = NoToken
    /\ historical_data_cache = <<>>
    /\ arrived = [t \in Tokens |-> <<>>]
    /\ nticks = 0
    /\ nconnects = 0

\* no position, no order and no handler in progress
NoTrading(budget) ==
    /\ positions = <<>>
    /\ call = NoCall
    /\ cpc = "idle" /\ cstock = 0 /\ cind = NoIndicators /\ cleft = <<>> /\ centry = <<>>
    /\ corders = NoOrders
    /\ pending_orders = <<>>
    /\ epc = "idle" /\ eleft = <<>>
    /\ xpc = [th \in Threads |-> "none"]
    /\ xpos = [th \in Threads |-> 0]
    /\ xprice = [th \in Threads |-> 0]
    /\ xreason = [th \in Threads |-> ""]
    /\ sells = <<>> /\ closes = <<>> /\ lossStreak = 0 /\ lastCloseWon = FALSE
    /\ posBudget = budget

\* the same with the portfolio cap of the default configuration
\* (config.py:24, risk_manager.py:20)
TradingIdle(budget) ==
    /\ max_positions = MAX_POSITIONS
    /\ NoTrading(budget)

\* the engine constructed, before start_monitoring has touched the
\* performance table (execution_engine.py:33-87)
EngineIdle(budget) ==
    /\ initial_capital \in Capitals
    /\ TradingIdle(budget)

\* the engine after start_monitoring with an empty positions table:
\* reset_daily_counters has created today's performance row
\* (execution_engine.py:364-403, risk_manager.py:181-209)
EngineInit(budget) ==
    /\ performance = <<Performance(0)>>
    /\ EngineIdle(budget)

\* the life cycle of an engine that start_monitoring has brought to
\* scheduler.start()
BootRunning ==
    /\ engine = "constructed" /\ access_token = TRUE
    /\ watchlist_store = <<[watchlist |-> Stocks]>> /\ instruments = Stocks
    /\ watchlist = Stocks
    /\ stock_to_instrument_token = [s \in Stocks |-> s]
    /\ scheduler_jobs = {"end_of_day"} /\ scheduler_running = TRUE
    /\ bpc = "blocked" /\ stoppc = "idle" /\ stops_in_row = 0

\* the life cycle of an engine that was constructed and never started
BootNew ==
    /\ engine = "constructed" /\ access_token = TRUE
    /\ watchlist_store = <<[watchlist |-> Stocks]>> /\ instruments = Stocks
    /\ watchlist = {}
    /\ stock_to_instrument_token = <<>>
    /\ scheduler_jobs = {} /\ scheduler_running = FALSE
    /\ bpc = "idle" /\ stoppc = "idle" /\ stops_in_row = 0

\* no simulator is running
SimOff ==
    /\ sim_positions = <<>> /\ spc = "none" /\ sstock = 0 /\ stime = 0
    /\ trades = <<>> /\ totals = NoTotals
    /\ historical_data = <<>> /\ srun = 0 /\ sim_prev = <<>>

LiveInit(budget) == EngineInit(budget) /\ is_running = TRUE /\ BootRunning /\ SimOff

InitAgg == AggInit /\ LiveInit(MaxLivePositions)

NextAgg ==
    \/ Connect
    \/ Subscribe(Tokens)
    \/ OnClose
    \/ OnReconnect
    \/ OnConnect
    \/ OnNoReconnect
    \/ \E tok \in Tokens, p \in TickPrices, v \in TickVolumes : OnTicksAppend(tok, p, v)
    \/ CheckAndAggregate
    \/ TickCloseCandle
    \/ TickCallbackReturn
    \/ TickSetLast
    \/ DisconnectBegin
    \/ \E tok \in Tokens : DisconnectFlush(tok)
    \/ MainCallbackReturn
    \/ DisconnectClose
    \/ AdvanceTime

SpecAgg == InitAgg /\ [][NextAgg]_vars

----------------------------------------------------------------------------
\* indicator snapshots of the live run: an entry signal at 100 and a fall
\* to 97 (below the stop of a position entered at 100)
LiveIndicators ==
    {[NoIndicators EXCEPT !.current_price = 100, !.price_above_cloud = TRUE,
                          !.tenkan_above_kijun = TRUE],
     [NoIndicators EXCEPT !.current_price = 97, !.price_below_cloud = TRUE]}

QuotePrices == {97, 105}

\* the stocks whose candles close in the live run
LiveStocks == {1}

InitLive == AggInit /\ LiveInit(MaxLivePositions)

NextLive ==
    \/ \E stock \in LiveStocks, ind \in LiveIndicators : CandleClose(stock, ind)
    \/ CycleCheckExit
    \/ \E th \in Threads, price \in QuotePrices : ExecuteExitOrder(th, price)
    \/ \E th \in Threads : ExecuteExitNoQuote(th)
    \/ \E th \in Threads : ExecuteExitClose(th)
    \/ \E th \in Threads : ExecuteExitPerf(th)
    \/ \E bought \in BOOLEAN : CycleCheckEntry(bought, TRUE, TRUE)
    \/ CycleCreatePosition
    \/ EodBegin
    \/ EodNextExit
    \/ EodReturn
    \/ AdvanceTime

SpecLive == InitLive /\ [][NextLive]_vars

----------------------------------------------------------------------------
\* indicator snapshots of the runs that fill the portfolio: an entry signal
\* at 100
CapsIndicators ==
    {[NoIndicators EXCEPT !.current_price = 100, !.price_above_cloud = TRUE,
                          !.tenkan_above_kijun = TRUE]}

\* indicator snapshots of the simulator runs: an entry signal at 100, too
\* few candles, no signal at 101 and a rise to 105
SimIndicators ==
    CapsIndicators \cup
    {NoIndicators,
     [NoIndicators EXCEPT !.current_price = 101, !.price_above_cloud = TRUE],
     [NoIndicators EXCEPT !.current_price = 105, !.price_above_cloud = TRUE]}

CapsQuotePrices == {105}

\* the simulator additionally sees a rise to 105 (above the target of a
\* position entered at 100)
CapsSimIndicators ==
    CapsIndicators \cup
    {[NoIndicators EXCEPT !.current_price = 105, !.price_above_cloud = TRUE]}

\* historical data of a day of `steps` 5-minute steps with snapshots drawn
\* from `snapshots`; the candles of a stock only accumulate, so once its
\* indicators are available they stay available
SimData(steps, snapshots) ==
    {h \in [1..steps -> [Stocks -> snapshots]] :
        \A t \in 1..(steps - 1), stock \in Stocks :
            h[t][stock] # NoIndicators => h[t + 1][stock] # NoIndicators}

\* a simulator constructed with its own capital, its data loaded, at the
\* first step of the day; the engine is not monitoring
\* (simulator.py:25-71, 107-198)
SimStart(data) ==
    /\ is_running = FALSE
    /\ BootNew
    /\ historical_data \in data
    /\ sim_positions = <<>> /\ spc = "exits" /\ sstock = 1 /\ stime = 1
    /\ trades = <<>> /\ totals = NoTotals
    /\ srun = 1 /\ sim_prev = <<>>

SimInit(budget, data) == EngineInit(budget) /\ SimStart(data)

InitCaps ==
    AggInit /\ (\/ LiveInit(MaxCapsPositions)
                \/ SimInit(MaxCapsPositions, SimData(MaxCapsSteps, CapsSimIndicators)))

NextCaps ==
    \/ \E stock \in Stocks, ind \in CapsIndicators : CandleClose(stock, ind)
    \/ CycleCheckExit
    \/ \E th \in Threads, price \in CapsQuotePrices : ExecuteExitOrder(th, price)
    \/ \E th \in Threads : ExecuteExitClose(th)
    \/ \E th \in Threads : ExecuteExitPerf(th)
    \/ \E bought \in BOOLEAN : CycleCheckEntry(bought, TRUE, TRUE)
    \/ CycleCreatePosition
    \/ EodBegin
    \/ EodNextExit
    \/ EodReturn
    \/ SimProcessExits
    \/ SimProcessEntries
    \/ SimCloseAll

SpecCaps == InitCaps /\ [][NextCaps]_vars

----------------------------------------------------------------------------
\* the live run with a broker that may refuse each order of an entry; the
\* exits are quoted 100, between the stop and the target of a position
\* entered at 100
OrderQuotePrices == {100}

InitOrders == AggInit /\ LiveInit(MaxOrderPositions)

NextOrders ==
    \/ \E stock \in LiveStocks, ind \in LiveIndicators : CandleClose(stock, ind)
    \/ CycleCheckExit
    \/ \E th \in Threads, price \in OrderQuotePrices : ExecuteExitOrder(th, price)
    \/ \E th \in Threads : ExecuteExitNoQuote(th)
    \/ \E th \in Threads : ExecuteExitClose(th)
    \/ \E th \in Threads : ExecuteExitPerf(th)
    \/ \E bought, sl_ok, tp_ok \in BOOLEAN : CycleCheckEntry(bought, sl_ok, tp_ok)
    \/ CycleCreatePosition
    \/ EodBegin
    \/ EodNextExit
    \/ EodReturn

SpecOrders == InitOrders /\ [][NextOrders]_vars

----------------------------------------------------------------------------
\* the signal and risk functions called on their own
\* every combination of the five entry conditions, the histogram absent
\* (0), negative or positive
EntrySnapshots ==
    {[NoIndicators EXCEPT !.current_price = 100,
                          !.price_above_cloud = a, !.tenkan_above_kijun = b,
                          !.cloud_green = c, !.macd_above_signal = d,
                          !.histogram = h, !.histogram_rising = r] :
        a \in BOOLEAN, b \in BOOLEAN, c \in BOOLEAN, d \in BOOLEAN,
        r \in BOOLEAN, h \in HistogramValues}

\* closes around the entry price, the stop and the target of a position
\* entered at 100 or 101, with every MACD and cloud state
ExitSnapshots ==
    {[NoIndicators EXCEPT !.current_price = cp, !.price_below_cloud = below,
                          !.macd_above_signal = d, !.histogram = h] :
        cp \in ClosePrices, below \in BOOLEAN, d \in BOOLEAN, h \in HistogramValues}

\* open positions as create_position records them
OpenPositions == {NewPosition(1, price, 1) : price \in EntryPrices}

\* should_trade is called while the store may refuse the read
CallShouldTradeRead(current_active_positions, portfolio_pnl, capital, read_raises) ==
    /\ call' = [NoCall EXCEPT !.fn = "should_trade",
                              !.args = <<current_active_positions, portfolio_pnl, capital,
                                         read_raises>>,
                              !.store = performance,
                              !.result = [allowed |-> should_trade_read(current_active_positions,
                                                          portfolio_pnl, capital, read_raises)]]
    /\ UNCHANGED <<dbVars, cVars, eVars, xVars, histVars, brokerVars, cfgVars, simVars, aggVars>>

InitPure ==
    /\ AggInit
    /\ EngineIdle(0)
    /\ performance \in {<<>>, <<Performance(0)>>}
    /\ is_running = FALSE
    /\ BootNew
    /\ SimOff

NextPure ==
    \/ \E ind \in EntrySnapshots : CallCheckEntry(ind)
    \/ \E ind \in ExitSnapshots, pos \in OpenPositions : CallCheckExit(ind, pos)
    \/ \E n \in 0..(MAX_POSITIONS + 1), pnl \in PortfolioPnls, capital \in Capitals :
          CallShouldTrade(n, pnl, capital)
    \/ LiveLosingExit

SpecPure == InitPure /\ [][NextPure]_vars

----------------------------------------------------------------------------
\* two simulator runs on the same date, stock list, capital and candles,
\* while the live path writes today's performance row of the shared store
InitRuns ==
    AggInit /\ SimInit(MaxRunSteps * NumStocks, SimData(MaxRunSteps, SimIndicators))

NextRuns ==
    \/ SimProcessExits
    \/ SimProcessEntries
    \/ SimCloseAll
    \/ SimNewRun
    \/ LiveLosingExit

SpecRuns == InitRuns /\ [][NextRuns]_vars

----------------------------------------------------------------------------
\* get_indicators called once on a window of 0 to MaxWindow candles
InitIndicators == InitPure

NextIndicators == \E df \in Windows : CallGetIndicators(df)

SpecIndicators == InitIndicators /\ [][NextIndicators]_vars

----------------------------------------------------------------------------
\* a position is created and closed at any price with any reason
InitStore ==
    /\ AggInit
    /\ EngineInit(MaxStorePositions)
    /\ is_running = FALSE
    /\ BootNew
    /\ SimOff

NextStore ==
    \/ \E stock \in Stocks, price \in EntryPrices, quantity \in Quantities :
          CreatePosition(stock, price, quantity)
    \/ \E p \in 1..MaxStorePositions, exit_price \in ClosePrices,
          exit_reason \in ExitReasons :
          ClosePosition(p, exit_price, exit_reason)

SpecStore == InitStore /\ [][NextStore]_vars

----------------------------------------------------------------------------
\* a long run of candle closes: the engine is monitoring every instrument,
\* initialize_indicators has put a fetched history of 0, 1 or more than
\* 100 candles into the cache of each, and the stream delivers one tick per
\* 5-minute interval, to the instruments in turn
HistoryLengths == {0, 1, MaxCandles + 1}

\* the fetched history of n candles, oldest first
History(tok, n) == [i \in 1..n |-> [HistoryCandle(tok) EXCEPT !.timestamp = i - n - 2]]

InitWindow ==
    /\ now = 0
    /\ conn = "open"
    /\ is_connected = TRUE
    /\ subscribed_instruments = Tokens
    /\ ticks_buffer = <<>>
    /\ candles = <<>>
    /\ last_candle_time = <<>>
    /\ lock = "free"
    /\ streamSubs = Tokens
    /\ reconnected = FALSE
    /\ tpc = "idle" /\ ttok = NoToken /\ tstart = None
    /\ mpc = "idle" /\ mleft = {} /\ mtok = NoToken
    /\ \E n \in HistoryLengths :
          historical_data_cache = IF n = 0 THEN <<>> ELSE [t \in Tokens |-> History(t, n)]
    /\ arrived = [t \in Tokens |-> <<>>]
    /\ nticks = 0
    /\ nconnects = 1
    /\ LiveInit(0)

NextWindow ==
    \E tok \in Tokens :
        /\ tok = (now % NumTokens) + 1
        /\ StreamTick(tok, (now % MaxPrice) + 1, 1)

SpecWindow == InitWindow /\ [][NextWindow]_vars

----------------------------------------------------------------------------
\* the engine from before its construction: any watchlist record, any set
\* of symbols listed by the broker, with or without an access token
InitBoot ==
    /\ AggInit
    /\ TradingIdle(0)
    /\ initial_capital = None
    /\ performance = <<>>
    /\ is_running = FALSE
    /\ engine = "none"
    /\ access_token \in BOOLEAN
    /\ watchlist_store \in WatchlistRecords
    /\ instruments \in SUBSET Stocks
    /\ watchlist = {}
    /\ stock_to_instrument_token = <<>>
    /\ scheduler_jobs = {} /\ scheduler_running = FALSE
    /\ bpc = "idle" /\ stoppc = "idle" /\ stops_in_row = 0
    /\ SimOff

NextBoot ==
    \/ \E override \in {None}, fetched \in {None} \cup Capitals :
          Construct(override, fetched)
    \/ \E fetched \in HistoryFetches : StartLoad(fetched)
    \/ \E opened \in BOOLEAN : StartConnect(opened)
    \/ StopBegin
    \/ \E tok \in Tokens : DisconnectFlush(tok)
    \/ MainCallbackReturn
    \/ DisconnectClose
    \/ StopEnd
    \/ OnConnect
    \/ \E tok \in Tokens, price \in TickPrices, volume \in TickVolumes :
          OnTicksAppend(tok, price, volume)
    \/ CheckAndAggregate
    \/ TickCloseCandle
    \/ TickCallbackReturn
    \/ TickSetLast
    \/ AdvanceTime

SpecBoot == InitBoot /\ [][NextBoot]_vars

----------------------------------------------------------------------------
\* indicator snapshots of the run that is shut down: an entry signal at 100
\* and no signal at 101
ShutdownIndicators ==
    CapsIndicators \cup
    {[NoIndicators EXCEPT !.current_price = 101, !.price_above_cloud = TRUE]}

\* a monitoring engine: the stream is open and subscribed, and the cache of
\* each instrument holds the history initialize_indicators has fetched
InitShutdown ==
    /\ now = 0
    /\ conn = "open"
    /\ is_connected = TRUE
    /\ subscribed_instruments = Tokens
    /\ ticks_buffer = <<>>
    /\ candles = <<>>
    /\ last_candle_time = <<>>
    /\ lock = "free"
    /\ streamSubs = Tokens
    /\ reconnected = FALSE
    /\ tpc = "idle" /\ ttok = NoToken /\ tstart = None
    /\ mpc = "idle" /\ mleft = {} /\ mtok = NoToken
    /\ historical_data_cache = [t \in Tokens |-> History(t, MaxCandles + 1)]
    /\ arrived = [t \in Tokens |-> <<>>]
    /\ nticks = 0
    /\ nconnects = 1
    /\ LiveInit(MaxShutdownPositions)

NextShutdown ==
    \/ \E tok \in Tokens, price \in TickPrices, volume \in TickVolumes :
          OnTicksAppend(tok, price, volume)
    \/ CheckAndAggregate
    \/ TickCloseCandle
    \/ TickSetLast
    \/ AdvanceTime
    \/ StopBegin
    \/ \E tok \in Tokens : DisconnectFlush(tok)
    \/ DisconnectClose
    \/ StopEnd
    \/ \E th \in {"tick", "main"}, ind \in ShutdownIndicators, bought \in BOOLEAN :
          CallbackProcessCandle(th, ind, bought)

SpecShutdown == InitShutdown /\ [][NextShutdown]_vars

----------------------------------------------------------------------------
\* indicator snapshots of the simulated day with losing closes: an entry
\* signal at 100, a fall to 97 (below the stop of a position entered at 100)
\* and a rise to 105 (above its target)
LossIndicators ==
    CapsSimIndicators \cup
    {[NoIndicators EXCEPT !.current_price = 97, !.price_below_cloud = TRUE]}

InitLosses ==
    AggInit /\ SimInit(MaxLossSteps * NumStocks, SimData(MaxLossSteps, LossIndicators))

NextLosses ==
    \/ SimProcessExits
    \/ SimProcessEntries
    \/ SimCloseAll

SpecLosses == InitLosses /\ [][NextLosses]_vars

----------------------------------------------------------------------------
\* indicator snapshots of the live run with a collapse of the price: an
\* entry signal at 100 and an entry signal at 10
DrawdownIndicators ==
    CapsIndicators \cup
    {[NoIndicators EXCEPT !.current_price = 10, !.price_above_cloud = TRUE,
                          !.tenkan_above_kijun = TRUE]}

InitDrawdown == AggInit /\ LiveInit(MaxLivePositions)

NextDrawdown ==
    \/ \E stock \in LiveStocks, ind \in DrawdownIndicators : CandleClose(stock, ind)
    \/ CycleCheckExit
    \/ \E th \in Threads, price \in QuotePrices : ExecuteExitOrder(th, price)
    \/ \E th \in Threads : ExecuteExitNoQuote(th)
    \/ \E th \in Threads : ExecuteExitClose(th)
    \/ \E th \in Threads : ExecuteExitPerf(th)
    \/ \E bought \in BOOLEAN : CycleCheckEntry(bought, TRUE, TRUE)
    \/ CycleCreatePosition

SpecDrawdown == InitDrawdown /\ [][NextDrawdown]_vars

----------------------------------------------------------------------------
\* simulated positions entered at 100 or 101 with the stop and the target
\* _check_entry gives them, with a stop of 0, and with a target below the
\* entry price: stop_loss < take_profit in each
SimOpenPositions ==
    LET opened(price) ==
            [stock |-> 1, entry_price |-> price, quantity |-> 1,
             stop_loss |-> calculate_stop_loss(price),
             take_profit |-> calculate_take_profit(price),
             status |-> "ACTIVE", exit_price |-> None, exit_time |-> None,
             exit_reason |-> "", pnl |-> 0]
    IN  UNION {{opened(price),
                [opened(price) EXCEPT !.stop_loss = 0],
                [opened(price) EXCEPT !.take_profit = 99 * price]} :
               price \in EntryPrices}

InitExits == InitPure

NextExits ==
    \E ind \in ExitSnapshots, pos \in SimOpenPositions : CallSimCheckExit(ind, pos)

SpecExits == InitExits /\ [][NextExits]_vars

----------------------------------------------------------------------------
\* portfolio caps the environment configures: the default and 12
\* (config.py:24, MAX_POSITIONS from the environment)
ConfiguredCaps == {MAX_POSITIONS, MAX_POSITIONS + 3}

\* a simulator run under a configured portfolio cap
InitSizing ==
    /\ AggInit
    /\ NoTrading(MaxSizingSteps * NumStocks)
    /\ max_positions \in ConfiguredCaps
    /\ initial_capital \in Capitals
    /\ performance = <<Performance(0)>>
    /\ SimStart(SimData(MaxSizingSteps, CapsSimIndicators))

NextSizing ==
    \/ SimProcessExits
    \/ SimProcessEntries
    \/ SimCloseAll

SpecSizing == InitSizing /\ [][NextSizing]_vars

----------------------------------------------------------------------------
\* a live run on the candle-close thread alone, in which the store can
\* refuse a close
InitCloseFail == AggInit /\ LiveInit(MaxLivePositions)

NextCloseFail ==
    \/ \E stock \in LiveStocks, ind \in LiveIndicators : CandleClose(stock, ind)
    \/ CycleCheckExit
    \/ \E price \in QuotePrices : ExecuteExitOrder("cycle", price)
    \/ ExecuteExitNoQuote("cycle")
    \/ ExecuteExitClose("cycle")
    \/ ExecuteExitCloseFails("cycle")
    \/ ExecuteExitReadFails("cycle")
    \/ ExecuteExitPerf("cycle")
    \/ \E bought \in BOOLEAN : CycleCheckEntry(bought, TRUE, TRUE)
    \/ CycleCreatePosition

SpecCloseFail == InitCloseFail /\ [][NextCloseFail]_vars

----------------------------------------------------------------------------
\* indicator snapshots of the live run whose closes are recorded: an entry
\* signal at 100, a fall to 97 below the cloud (under the stop of a
\* position entered at 100) and a rise to 104 (its target)
CloseIndicators ==
    LiveIndicators \cup
    {[NoIndicators EXCEPT !.current_price = 104, !.price_above_cloud = TRUE]}

\* last_price of the quote fetched by _execute_exit, after the candle closed
CloseQuotePrices == {97, 100, 104}

InitCloses == AggInit /\ LiveInit(MaxLivePositions)

NextCloses ==
    \/ \E stock \in LiveStocks, ind \in CloseIndicators : CandleClose(stock, ind)
    \/ CycleCheckExit
    \/ \E price \in CloseQuotePrices : ExecuteExitOrder("cycle", price)
    \/ ExecuteExitNoQuote("cycle")
    \/ ExecuteExitClose("cycle")
    \/ ExecuteExitPerf("cycle")
    \/ \E bought \in BOOLEAN : CycleCheckEntry(bought, TRUE, TRUE)
    \/ CycleCreatePosition

SpecCloses == InitCloses /\ [][NextCloses]_vars

----------------------------------------------------------------------------
\* the risk gate asked with any number of consecutive losses in the day's
\* row, while the store answers the read or raises
InitBreaker ==
    /\ AggInit
    /\ EngineIdle(0)
    /\ performance \in {<<>>} \cup {<<Performance(n)>> : n \in 0..MaxStoredLosses}
    /\ is_running = FALSE
    /\ BootNew
    /\ SimOff

NextBreaker ==
    \E n \in 0..(MAX_POSITIONS + 1), pnl \in PortfolioPnls, capital \in Capitals,
       read_raises \in BOOLEAN :
          CallShouldTradeRead(n, pnl, capital, read_raises)

SpecBreaker == InitBreaker /\ [][NextBreaker]_vars

----------------------------------------------------------------------------
\* snapshots whose trend-cloud component is the empty dict (calculate_ichimoku
\* returned {}), with every state of the momentum component
EmptyCloudSnapshots ==
    {[NoIndicators EXCEPT !.macd_above_signal = d, !.histogram = h,
                          !.histogram_rising = r] :
        d \in BOOLEAN, r \in BOOLEAN, h \in HistogramValues}

InitEmptyCloud == InitPure

NextEmptyCloud ==
    \/ \E ind \in EmptyCloudSnapshots \cup EntrySnapshots : CallCheckEntry(ind)
    \/ \E ind \in EmptyCloudSnapshots \cup ExitSnapshots, pos \in OpenPositions :
          CallCheckExit(ind, pos)
    \/ \E stock \in Stocks, ind \in EmptyCloudSnapshots \cup EntrySnapshots :
          CallSimCheckEntry(stock, ind)

SpecEmptyCloud == InitEmptyCloud /\ [][NextEmptyCloud]_vars



(***************************************************************************)
(* Candle aggregation: properties                                          *)
(***************************************************************************)
\* the ticks of one instrument that arrived within interval iv
TicksOfInterval(tok, iv) == SelectSeq(arrived[tok], LAMBDA t : t.timestamp = iv)

PricesOf(ticks)  == [i \in 1..Len(ticks) |-> ticks[i].last_price]
VolumesOf(ticks) == [i \in 1..Len(ticks) |-> ticks[i].volume]

CandleIsOfItsInterval(c) ==
    LET T == TicksOfInterval(c.instrument_token, c.timestamp)
    IN  /\ T # <<>>
        /\ c.open   = T[1].last_price
        /\ c.close  = T[Len(T)].last_price
        /\ c.high   = SeqMax(PricesOf(T))
        /\ c.low    = SeqMin(PricesOf(T))
        /\ c.volume = SeqSum(VolumesOf(T))

\* disconnect() has not been called in this run
NeverDisconnected == mpc = "idle" /\ conn # "closed" /\ nconnects <= 1

\* C5: with no disconnect() involved, every emitted candle whose interval
\* has ended is built from exactly the ticks that arrived within its
\* interval: open = first tick price, close = last tick price, high/low =
\* extrema, volume = sum of the interval's tick volumes.
C5_CandleFromIntervalTicks ==
    NeverDisconnected =>
        \A tok \in DOMAIN candles : \A i \in 1..Len(candles[tok]) :
            candles[tok][i].timestamp < now => CandleIsOfItsInterval(candles[tok][i])

NumStamped(cs, iv) == Cardinality({i \in 1..Len(cs) : cs[i].timestamp = iv})

\* interval iv of tok is over for the aggregator: a later interval was
\* started for tok
IntervalOver(tok, iv) ==
    Get(last_candle_time, tok, None) # None /\ iv < last_candle_time[tok]

\* C6: for every instrument and interval that is over, exactly one candle
\* stamped with the interval was emitted and handed to the callback once if
\* a tick arrived in the interval, and none if no tick arrived in it.
C6_OneCandlePerTickedInterval ==
    \A tok \in Tokens : \A iv \in 0..MaxTime :
        IntervalOver(tok, iv) =>
            LET n == IF TicksOfInterval(tok, iv) # <<>> THEN 1 ELSE 0
            IN  /\ NumStamped(Get(candles, tok, <<>>), iv) = n
                /\ NumStamped(Get(historical_data_cache, tok, <<>>), iv) = n

\* C7: per instrument, the candles handed to the candle-close callback have
\* strictly increasing interval-start timestamps.
C7_StrictlyIncreasingCandles ==
    \A tok \in DOMAIN historical_data_cache :
        \A i, j \in 1..Len(historical_data_cache[tok]) :
            i < j => historical_data_cache[tok][i].timestamp
                       < historical_data_cache[tok][j].timestamp

\* C8: once the stream is open again after a close and a reconnection, a
\* subscribe request has been issued on it for every member of
\* subscribed_instruments.
C8_ResubscribedAfterReconnect ==
    (conn = "open" /\ reconnected) => subscribed_instruments \subseteq streamSubs

\* a candle-close decision cycle is executing for tok on thread th
InCycle(th, tok) ==
    \/ th = "tick" /\ tpc = "callback" /\ ttok = tok
    \/ th = "main" /\ mpc = "callback" /\ mtok = tok

CycleExecuting == \E th \in {"tick", "main"}, tok \in Tokens : InCycle(th, tok)

\* the stream thread is free to append a tick to the buffer
CanIngest == tpc = "idle" /\ LockFree

\* C9: while a candle-close decision cycle is executing, the stream thread
\* can still append newly arrived ticks to the tick buffer.
C9_IngestNotBlockedByCycle ==
    (CycleExecuting /\ conn = "open") => CanIngest

\* C10: at most one candle-close decision cycle per instrument is executing
\* at any time.
C10_OneCyclePerInstrument ==
    \A tok \in Tokens :
        Cardinality({th \in {"tick", "main"} : InCycle(th, tok)}) <= 1

\* the stream thread is about to close a candle of the instrument whose
\* cycle runs on the disconnecting thread
C10_Witness ==
    /\ mpc = "callback" /\ tpc = "close" /\ ttok = mtok

(***************************************************************************)
(* Positions and circuit breaker: properties                               *)
(***************************************************************************)
\* C1: under every interleaving of the end-of-day job and an exit on the
\* candle-close thread, each position is closed by close_position at most
\* once and at most one market SELL order is placed for it.
C1_ClosedAndSoldAtMostOnce ==
    \A p \in 1..Len(positions) : closes[p] <= 1 /\ sells[p] <= 1

\* C2: closing is one-way: a step never changes the row (status, exit
\* price, exit time, exit reason, P&L) of a position that is not ACTIVE.
C2_CloseIsOneWay ==
    [][\A p \in 1..Len(positions) :
          positions[p].status # "ACTIVE" => positions'[p] = positions[p]]_vars

NoExitInProgress == \A th \in Threads : xpc[th] = "none"

\* should_trade as the entry gate calls it, for n active positions
GateOpen(n) == should_trade(n, 0, initial_capital)

\* C4: once the exits that ran have finished, three or more losing closes
\* in a row keep should_trade false for every number of active positions,
\* and after a winning close should_trade is true again below the position
\* limit.
C4_CircuitBreakerFollowsLossStreak ==
    NoExitInProgress =>
        /\ lossStreak >= circuit_breaker_losses =>
               \A n \in 0..max_positions : ~GateOpen(n)
        /\ lastCloseWon =>
               \A n \in 0..(max_positions - 1) : GateOpen(n)

(***************************************************************************)
(* End-of-day job: properties                                              *)
(***************************************************************************)
\* the end-of-day job is done with the position it was squaring off: its
\* call _execute_exit(position, "EOD") returns in this step
EodExitReturns == xpc["eod"] # "none" /\ xpc'["eod"] = "none"

\* the row was closed by the end-of-day job
ClosedAtEod(pos) ==
    /\ pos.status = "CLOSED_EOD"
    /\ pos.exit_reason = "EOD"
    /\ pos.exit_price # None
    /\ pos.exit_time # None

\* C11: handle_end_of_day leaves no position ACTIVE: each position that
\* was ACTIVE when the job started (the positions the job squares off, one
\* after the other) has status CLOSED_EOD, exit reason EOD, and its exit
\* price and exit time set when the job is done with it.
C11_EodClosesEveryActivePosition ==
    [][EodExitReturns => ClosedAtEod(positions'[xpos["eod"]])]_vars

(***************************************************************************)
(* Simulator: properties                                                   *)
(***************************************************************************)
\* run_simulation returns in this step
SimFinishes == spc = "close" /\ spc' = "done"

\* close of the last candle of the stock at or before the cutoff
LastCandleClose(stock) == historical_data[Len(historical_data)][stock].current_price

\* C12: when a simulation run finishes, no position of its ledger is
\* ACTIVE; every position is closed with exit price, exit time and exit
\* reason set, and every position that was still open at the cutoff is
\* closed with reason EOD at the close of its stock's last candle at or
\* before the cutoff.
C12_SimulationEndsFlat ==
    [][SimFinishes =>
          \A i \in 1..Len(sim_positions') :
              LET before == sim_positions[i]
                  after == sim_positions'[i]
              IN  /\ after.status = "CLOSED"
                  /\ after.exit_price # None
                  /\ after.exit_time # None
                  /\ after.exit_reason # ""
                  /\ before.status = "ACTIVE" =>
                         /\ after.exit_reason = "EOD"
                         /\ after.exit_price = LastCandleClose(after.stock)]_vars

\* a run has finished with a position squared off at the cutoff and a
\* position that had reached its target before
C12_Witness ==
    /\ spc = "done"
    /\ \E i \in 1..Len(sim_positions) : sim_positions[i].exit_reason = "EOD"
    /\ \E i \in 1..Len(sim_positions) : sim_positions[i].exit_reason = "TAKE_PROFIT"

\* C13: a second simulator run with the same date, stock list, capital and
\* candles ends with the same position ledger as the first, whatever the
\* live path wrote to today's performance row in the meantime.
C13_RunsAreReproducible ==
    (srun = 2 /\ spc = "done") => sim_positions = sim_prev

\* the positions of the ledger that were closed at the step the loop is at
SimClosedNow == SelectSeq([i \in 1..Len(sim_positions) |-> i],
                          LAMBDA i : /\ sim_positions[i].status # "ACTIVE"
                                     /\ sim_positions[i].exit_time = stime)

\* C24: in every simulator step the exits of all stocks are processed
\* before the entry of any stock: whenever an entry is checked, no ACTIVE
\* position of any stock meets an exit condition on its stock's snapshot of
\* that step, so every slot that the step frees is free for the entry check.
C24_ExitsBeforeEntries ==
    spc = "entries" =>
        \A i \in 1..Len(sim_positions) :
            LET pos == sim_positions[i]
                ind == SimIndicatorsAt(pos.stock, stime)
            IN  (pos.status = "ACTIVE" /\ ind # NoIndicators) =>
                    SimExitReason(ind, pos) = ""

\* an entry signal is checked in a step whose exits have brought a full
\* portfolio below the cap, and the gate lets the entry pass
C24_Witness ==
    /\ spc = "entries"
    /\ SimClosedNow # <<>>
    /\ Len(SimActive) + Len(SimClosedNow) >= max_positions
    /\ Len(SimActive) < max_positions
    /\ generate_entry_signal(SimIndicatorsAt(sstock, stime))
    /\ SimPerStockGate(sstock)
    /\ SimPortfolioGate

(***************************************************************************)
(* Orders: properties                                                      *)
(***************************************************************************)
\* the market SELL of an exit is placed on thread th in this step
SellPlaced(th) == xpc[th] = "start" /\ xpc'[th] = "ordered"

\* C14: when the live engine places the market SELL of an exit, no stop or
\* take-profit order placed at the position's entry is still pending: each
\* was cancelled before the SELL.
C14_ProtectiveOrdersCancelledBeforeSell ==
    [][\A th \in Threads :
          SellPlaced(th) => pending_orders'[xpos[th]] = {}]_vars

\* the placement calls of the given order type among the calls of one
\* execute_entry
CallsOfType(calls, order_type) ==
    {i \in 1..Len(calls) : calls[i].order_type = order_type}

\* C15: in one execute_entry, a stop or take-profit order is placed only
\* after the market BUY returned an order id; when the BUY fails neither is
\* placed and the three returned ids are absent; each of the three
\* placement calls is made at most once.
C15_ProtectiveOrdersFollowTheBuy ==
    LET calls == corders.calls
        protective == CallsOfType(calls, "SL-M") \cup CallsOfType(calls, "LIMIT")
    IN  /\ \A i \in protective :
               \E j \in 1..(i - 1) :
                   /\ calls[j].order_type = "MARKET"
                   /\ calls[j].transaction_type = "BUY"
                   /\ calls[j].order_id # None
        /\ (\A j \in CallsOfType(calls, "MARKET") : calls[j].order_id = None) =>
               /\ protective = {}
               /\ corders.buy_order = None
               /\ corders.stop_loss_order = None
               /\ corders.take_profit_order = None
        /\ \A t \in {"MARKET", "SL-M", "LIMIT"} : Cardinality(CallsOfType(calls, t)) <= 1

\* execute_entry has returned from a refused BUY, after an earlier entry
\* whose two protective orders are pending
C15_Witness ==
    /\ cpc = "create"
    /\ Len(corders.calls) = 1
    /\ corders.calls[1].order_id = None
    /\ \E p \in 1..Len(positions) : Cardinality(pending_orders[p]) = 2

\* _execute_entry returns from the call of execute_entry in this step
EntryReturns == cpc = "create" /\ cpc' = "idle"

TrueConditions(ind) ==
    (IF ind.price_above_cloud THEN {"price_above_cloud"} ELSE {})
    \cup (IF ind.tenkan_above_kijun THEN {"tenkan_above_kijun"} ELSE {})
    \cup (IF ind.cloud_green THEN {"cloud_green"} ELSE {})
    \cup (IF ind.macd_above_signal THEN {"macd_above_signal"} ELSE {})
    \cup (IF ind.histogram > 0 /\ ind.histogram_rising THEN {"histogram_rising"} ELSE {})

\* C17: check_entry_conditions reports a signal exactly when at least 2 of
\* the 5 conditions are true; the signal is Weak for exactly 2, Moderate
\* for exactly 3 and Strong for 4 or 5 true conditions.
C17_SignalIffTwoOfFive ==
    call.fn = "check_entry_conditions" =>
        LET n == Cardinality(TrueConditions(call.indicators))
        IN  /\ call.result.signal <=> n >= 2
            /\ n = 2 => call.result.strength = "Weak"
            /\ n = 3 => call.result.strength = "Moderate"
            /\ n \in {4, 5} => call.result.strength = "Strong"

\* a signal from exactly two conditions, one of them the rising histogram
C17_Witness ==
    /\ call.fn = "check_entry_conditions"
    /\ Cardinality(TrueConditions(call.indicators)) = 2
    /\ "histogram_rising" \in TrueConditions(call.indicators)
    /\ call.result.signal
    /\ call.result.strength = "Weak"

\* the MACD of the snapshot has reversed by more than 0.1% of the entry price
MacdReversed(ind, pos) ==
    ~ind.macd_above_signal /\ ind.histogram < 0 - pos.entry_price

\* C18: for an open position and a snapshot with a current close, a close
\* at or above the take-profit gives TAKE_PROFIT, otherwise a close at or
\* below the stop-loss gives STOP_LOSS, whatever the MACD, the cloud and
\* the sign of the P&L.
C18_TargetAndStopFirst ==
    (call.fn = "check_exit_conditions" /\ call.indicators.current_price # 0) =>
        LET cp == call.indicators.current_price
            pos == call.position_data[1]
        IN  /\ cp * 100 >= pos.take_profit => call.result.exit_reason = "TAKE_PROFIT"
            /\ (cp * 100 < pos.take_profit /\ cp * 100 <= pos.stop_loss) =>
                   call.result.exit_reason = "STOP_LOSS"

\* the close is at the stop while the MACD has reversed and the price is
\* below the cloud
C18_Witness ==
    /\ call.fn = "check_exit_conditions"
    /\ call.indicators.current_price * 100 = call.position_data[1].stop_loss
    /\ MacdReversed(call.indicators, call.position_data[1])
    /\ call.indicators.price_below_cloud
    /\ call.result.exit_reason = "STOP_LOSS"

\* C19: for a snapshot whose close is strictly between stop-loss and
\* take-profit and at or above the entry price, check_exit_conditions
\* returns no exit.
C19_NoTechnicalExitUnlessLosing ==
    call.fn = "check_exit_conditions" =>
        LET cp == call.indicators.current_price
            pos == call.position_data[1]
        IN  (pos.stop_loss < cp * 100 /\ cp * 100 < pos.take_profit /\ cp >= pos.entry_price)
                => call.result.exit_reason = ""

\* the close is at the entry price while the MACD has reversed and the
\* price is below the cloud, and no exit is returned
C19_Witness ==
    /\ call.fn = "check_exit_conditions"
    /\ call.indicators.current_price = call.position_data[1].entry_price
    /\ MacdReversed(call.indicators, call.position_data[1])
    /\ call.indicators.price_below_cloud
    /\ call.result.exit_reason = ""

\* the day's consecutive-loss counter in the store the call read
CounterOf(store) == IF store = <<>> THEN 0 ELSE store[1].consecutive_losses

C21_NoStartWithoutInstruments ==
    is_running => DOMAIN stock_to_instrument_token # {}

\* a start_monitoring returns because connect() failed
StartReturnsAtConnect == bpc = "connect" /\ bpc' = "idle"

\* C22: is_running is true only for a constructed engine with a fetched
\* capital and an access token, and it becomes true only with the tick
\* stream connected; an engine whose capital fetch failed is never running;
\* a start_monitoring whose connect() fails returns with is_running false
\* and no end-of-day job registered.
C22_RunningOnlyWithSessionAndCapital ==
    [][/\ is_running' =>
            engine' = "constructed" /\ initial_capital' \in Capitals /\ access_token'
       /\ (~is_running /\ is_running') => is_connected'
       /\ StartReturnsAtConnect => ~is_running' /\ scheduler_jobs' = {}]_vars

\* a start_monitoring has returned after a connection timeout
C22_Witness ==
    /\ engine = "constructed" /\ bpc = "idle" /\ conn = "retrying"
    /\ performance # <<>> /\ ~is_running /\ scheduler_jobs = {}

\* a stop_monitoring that follows a returned stop_monitoring, or runs on an
\* engine that never connected, is inside disconnect()
RepeatedStop == stoppc = "disconnect" /\ (stops_in_row >= 1 \/ conn = "none")

\* C23: stop_monitoring is idempotent: a stop_monitoring called right after
\* a stop_monitoring, or on an engine that was never started, invokes no
\* candle-close callback (the stream thread being outside its tick handler).
C23_RepeatedStopCallsNoCallback ==
    [][(RepeatedStop /\ tpc = "idle" /\ mpc # "callback") => mpc' # "callback"]_vars

(***************************************************************************)
(* Indicators: properties                                                  *)
(***************************************************************************)

\* C25: for every window of fewer than 52 candles the trend-cloud component
\* of get_indicators is empty, and for every window of fewer than 35
\* candles the momentum component is empty; the call returns its three
\* components, and a component whose own window is long enough is not
\* emptied by an empty one (35 candles give a momentum component, 20 a
\* volume component, 52 a trend-cloud component).
C25_ShortWindowsGiveEmptyComponents ==
    call.fn = "get_indicators" =>
        LET n == Len(call.args[1])
            r == call.result
        IN  /\ DOMAIN r = {"ichimoku", "macd", "volume"}
            /\ n < 52 => r.ichimoku = <<>>
            /\ n < 35 => r.macd = <<>>
            /\ n >= 52 => r.ichimoku # <<>>
            /\ n >= 35 => r.macd # <<>>
            /\ n >= 20 => r.volume # <<>>

\* get_indicators was called on a window that is long enough for the
\* momentum component and too short for the trend cloud
C25_Witness ==
    /\ call.fn = "get_indicators"
    /\ Len(call.args[1]) >= 35 /\ Len(call.args[1]) < 52
    /\ call.result.ichimoku = <<>>
    /\ call.result.macd # <<>>
    /\ call.result.macd.macd_above_signal
    /\ call.result.volume # <<>>

(***************************************************************************)
(* Rolling candle windows: properties                                      *)
(***************************************************************************)
Stamps(cs) == [i \in 1..Len(cs) |-> cs[i].timestamp]

\* the intervals of an instrument that were closed, in the order of their
\* closing: every interval with a tick but the one that is still open
ClosedIntervals(ticks) == [j \in 1..(Len(ticks) - 1) |-> ticks[j].timestamp]

\* a candle of the instrument is closed in this step
CandleClosed(tok) ==
    Len(arrived'[tok]) = Len(arrived[tok]) + 1 /\ Len(arrived[tok]) >= 1

\* C26: after every candle close the instrument's window in the aggregator
\* holds at most 100 candles, which are the last 100 closed in the order of
\* their closing, and the engine's cache of the instrument, the candle
\* being processed, holds at most 100 candles: the last 100 of what it held
\* before followed by the new candle.
C26_WindowsKeepLatestHundred ==
    [][\A tok \in Tokens :
          CandleClosed(tok) =>
              LET window == candles'[tok]
                  cache == historical_data_cache'[tok]
                  before == Get(historical_data_cache, tok, <<>>)
              IN  /\ Len(window) <= 100
                  /\ Stamps(window) = LastN(ClosedIntervals(arrived'[tok]), 100)
                  /\ Len(cache) <= 100
                  /\ cache = LastN(Append(before, window[Len(window)]), 100)
                  /\ cache[Len(cache)] = window[Len(window)]]_vars

\* more than 100 candles of an instrument were closed: its window and its
\* cache are full and have lost their oldest candles
C26_Witness ==
    \E tok \in Tokens :
        /\ Len(arrived[tok]) > 101
        /\ Len(candles[tok]) = 100
        /\ candles[tok][1].timestamp > arrived[tok][1].timestamp
        /\ Len(historical_data_cache[tok]) = 100
        /\ historical_data_cache[tok][1].timestamp > arrived[tok][1].timestamp

(***************************************************************************)
(* Position store: properties                                              *)
(***************************************************************************)
ClosedIds == {i \in 1..Len(positions) : positions[i].status # "ACTIVE"}

\* the realized P&L of a closed row is (exit price - entry price) * quantity
PnlRecorded(pos) == pos.pnl = (pos.exit_price - pos.entry_price) * pos.quantity

\* the statement of C27 as the spec has it: every reason other than
\* TAKE_PROFIT, MACD_REVERSAL, PRICE_BELOW_CLOUD and EOD gives CLOSED_LOSS
C27_StatusMapAsStated ==
    \A i \in ClosedIds :
        LET pos == positions[i]
        IN  /\ PnlRecorded(pos)
            /\ pos.status =
                 CASE pos.exit_reason = "TAKE_PROFIT" -> "CLOSED_PROFIT"
                   [] pos.exit_reason \in {"MACD_REVERSAL", "PRICE_BELOW_CLOUD"}
                         -> "CLOSED_REVERSAL"
                   [] pos.exit_reason = "EOD" -> "CLOSED_EOD"
                   [] OTHER -> "CLOSED_LOSS"

\* C27: close_position on an ACTIVE position sets pnl = (exit price - entry
\* price) * quantity and the status of its exit reason: TAKE_PROFIT gives
\* CLOSED_PROFIT; MACD_REVERSAL, PRICE_BELOW_CLOUD and the legacy reason
\* MACD_CROSSED_BELOW_SIGNAL give CLOSED_REVERSAL; EOD gives CLOSED_EOD;
\* STOP_LOSS and every other reason give CLOSED_LOSS.
C27_StatusMapWithLegacyReason ==
    \A i \in ClosedIds :
        LET pos == positions[i]
        IN  /\ PnlRecorded(pos)
            /\ pos.exit_reason = "TAKE_PROFIT" => pos.status = "CLOSED_PROFIT"
            /\ pos.exit_reason \in {"MACD_REVERSAL", "PRICE_BELOW_CLOUD",
                                    "MACD_CROSSED_BELOW_SIGNAL"} =>
                   pos.status = "CLOSED_REVERSAL"
            /\ pos.exit_reason = "EOD" => pos.status = "CLOSED_EOD"
            /\ pos.exit_reason \in {"STOP_LOSS", "MANUAL", ""} => pos.status = "CLOSED_LOSS"
            /\ pos.status \in {"CLOSED_PROFIT", "CLOSED_REVERSAL", "CLOSED_EOD", "CLOSED_LOSS"}

\* a position of 3 shares was closed above its entry price with the legacy
\* reason
C27_Witness ==
    \E i \in ClosedIds :
        /\ positions[i].exit_reason = "MACD_CROSSED_BELOW_SIGNAL"
        /\ positions[i].status = "CLOSED_REVERSAL"
        /\ positions[i].quantity = 3
        /\ positions[i].pnl > 3

(***************************************************************************)
(* Simulator risk gate: properties                                         *)
(***************************************************************************)
SimClosedIds == {i \in 1..Len(sim_positions) : sim_positions[i].status = "CLOSED"}

\* simulated close i happened after simulated close j: the loop closes by
\* step, within a step by stock, within a stock in the order of the list
SimClosedAfter(i, j) ==
    LET a == sim_positions[i]
        b == sim_positions[j]
    IN  \/ a.exit_time > b.exit_time
        \/ a.exit_time = b.exit_time /\ a.stock > b.stock
        \/ a.exit_time = b.exit_time /\ a.stock = b.stock /\ i > j

\* the losing simulated closes since the last winning simulated close
SimLossesInRow ==
    Cardinality({i \in SimClosedIds :
                    /\ sim_positions[i].pnl < 0
                    /\ \A w \in SimClosedIds :
                          sim_positions[w].pnl > 0 => SimClosedAfter(i, w)})

\* C28: in a simulation run, after 3 consecutive losing simulated closes no
\* new simulated entry is opened until a winning simulated close occurs.
C28_SimulatedLossesCloseTheGate ==
    [][SimLossesInRow >= circuit_breaker_losses =>
          Len(sim_positions') <= Len(sim_positions)]_vars

(***************************************************************************)
(* Performance record: properties                                          *)
(***************************************************************************)
\* the realized P&L of the closed rows 1..n of the positions table
RECURSIVE RealizedPnl(_)
RealizedPnl(n) ==
    IF n = 0 THEN 0
    ELSE RealizedPnl(n - 1) + (IF n \in ClosedIds THEN positions[n].pnl ELSE 0)

\* no _execute_exit is between its close_position and its performance update
NoExitInFlight == \A th \in Threads : xpc[th] # "closed"

\* C30: after every position close in the live path, today's performance
\* row reflects that close: its trade count, its win or loss count and its
\* total realized P&L each include the closed position.
C30_PerformanceReflectsCloses ==
    (NoExitInFlight /\ ClosedIds # {}) =>
        /\ performance # <<>>
        /\ performance[1].total_trades = Cardinality(ClosedIds)
        /\ performance[1].winning_trades =
              Cardinality({i \in ClosedIds : positions[i].pnl > 0})
        /\ performance[1].winning_trades + performance[1].losing_trades =
              performance[1].total_trades
        /\ performance[1].total_pnl = RealizedPnl(Len(positions))

(***************************************************************************)
(* Drawdown gate: properties                                               *)
(***************************************************************************)
\* the portfolio's current P&L in the cycle of a closed candle: the active
\* positions at the close of the candle
CyclePortfolioPnl ==
    calculate_portfolio_drawdown(ActiveIds, Put(<<>>, cstock, cind.current_price))

\* the portfolio is underwater by at least 18% of capital
Underwater ==
    /\ CyclePortfolioPnl < 0
    /\ ~check_daily_drawdown_limit(CyclePortfolioPnl, initial_capital)

\* the cycle is at its entry evaluation
EntryEvaluation == cpc = "exits" /\ xpc["cycle"] = "none" /\ cleft = <<>>

\* C29: no new entry is opened in a decision cycle in which the portfolio is
\* underwater by at least 18% of capital.
C29_NoEntryWhenUnderwater ==
    [][(EntryEvaluation /\ Underwater) => cpc' # "create"]_vars

TrendCloudEmpty(ind) ==
    /\ ~Truthy(ind.current_price)
    /\ ~ind.price_above_cloud /\ ~ind.price_below_cloud
    /\ ~ind.tenkan_above_kijun /\ ~ind.cloud_green

\* C32: whenever the trend-cloud component of a snapshot is empty, the entry
\* check and the exit check give no signal whatever the momentum component
\* holds, and the simulator's entry check counts no signal and opens no
\* position.
C32_EmptyCloudGivesNoSignal ==
    TrendCloudEmpty(call.indicators) =>
        /\ call.fn = "check_entry_conditions" => ~call.result.signal
        /\ call.fn = "check_exit_conditions" => call.result.exit_reason = ""
        /\ call.fn = "_check_entry" =>
              call.result.total_signals = 0 /\ call.result.positions = <<>>

(***************************************************************************)
(* After stop_monitoring: properties                                       *)
(***************************************************************************)
\* stop_monitoring has returned and start_monitoring was not called since
StopReturned == stoppc = "idle" /\ stops_in_row >= 1 /\ bpc = "idle"

\* a candle-close callback is being processed by the stream thread or by
\* the thread of disconnect
InCallback == tpc = "callback" \/ mpc = "callback"

\* C33: after stop_monitoring has returned, no candle-close callback is
\* processed, even if the stream thread is still handling a tick.
C33_NoCallbackAfterStopReturned ==
    [][(StopReturned /\ ~InCallback) => ~InCallback']_vars

(***************************************************************************)
(* Entries during shutdown: properties                                     *)
(***************************************************************************)
\* C37: once stop_monitoring has begun (is_running is false), no new
\* position is opened: the candles that disconnect flushes from the tick
\* buffers never lead to an entry.
C37_NoEntryOnceStopBegan ==
    [][~is_running => Len(positions') = Len(positions)]_vars

(***************************************************************************)
(* Simulator trade ledger: properties                                      *)
(***************************************************************************)
\* the trades of position id with the given action
TradesOf(id, action) ==
    {k \in 1..Len(trades) : trades[k].position = id /\ trades[k].action = action}

RECURSIVE SimCommitted(_)
SimCommitted(i) ==
    IF i > Len(sim_positions) THEN 0
    ELSE (IF sim_positions[i].status = "ACTIVE"
          THEN sim_positions[i].entry_price * sim_positions[i].quantity
          ELSE 0)
         + SimCommitted(i + 1)

\* C35: for every configured portfolio cap, the capital committed to the
\* ACTIVE positions of the simulator (sum of entry price * quantity) never
\* exceeds the initial capital.
C35_CommittedWithinCapital == SimCommitted(1) <= initial_capital

(***************************************************************************)
(* Loss counter and failed closes: properties                              *)
(***************************************************************************)
\* the day's consecutive-loss counter
ConsecutiveLosses ==
    IF performance = <<>> THEN 0 ELSE performance[1].consecutive_losses

\* C36: the consecutive-loss counter changes only in an _execute_exit whose
\* close_position took the position from ACTIVE to a closed status; after
\* a failed close the counter is left unchanged.
C36_CounterChangesOnlyOnClose ==
    [][ConsecutiveLosses' # ConsecutiveLosses =>
          \E th \in Threads :
              /\ xpc[th] = "closed" /\ xpc'[th] = "none"
              /\ positions[xpos[th]].status # "ACTIVE"]_vars

(***************************************************************************)
(* Recorded exits: properties                                              *)
(***************************************************************************)
\* the exit price recorded in a closed row agrees with its exit reason
ExitMatchesReason(pos) ==
    /\ pos.exit_reason = "TAKE_PROFIT" =>
          pos.exit_price * 100 >= pos.take_profit /\ pos.pnl > 0
    /\ pos.exit_reason = "STOP_LOSS" => pos.exit_price * 100 <= pos.stop_loss

\* C38: in the live engine and in the simulator, every position closed with
\* reason TAKE_PROFIT has an exit price at or above its take_profit (and a
\* positive P&L), and every position closed with reason STOP_LOSS has an
\* exit price at or below its stop_loss.
C38_ExitPriceMatchesReason ==
    /\ \A p \in 1..Len(positions) : ExitMatchesReason(positions[p])
    /\ \A p \in 1..Len(sim_positions) : ExitMatchesReason(sim_positions[p])

(***************************************************************************)
(* Break-even closes: properties                                           *)
(***************************************************************************)
\* positions closed with a realized P&L of exactly zero
BreakEvenIds ==
    {p \in 1..Len(positions) :
        positions[p].status # "ACTIVE" /\ positions[p].pnl = 0}

\* every position of the day is closed at break-even and no exit is under way
OnlyBreakEvenCloses ==
    /\ BreakEvenIds = 1..Len(positions)
    /\ \A th \in Threads : xpc[th] = "none"

\* C40: the live path treats a close with a realized P&L of exactly zero as
\* a loss: the performance update of such a close increments the
\* consecutive-loss counter instead of resetting it, and after three
\* break-even closes in a row the circuit breaker refuses trading.
C40_BreakEvenCountsAsLoss ==
    /\ [][\A th \in Threads :
              (/\ xpc[th] = "closed" /\ xpc'[th] = "none"
               /\ positions[xpos[th]].status # "ACTIVE"
               /\ positions[xpos[th]].pnl = 0)
              => ConsecutiveLosses' = ConsecutiveLosses + 1]_vars
    /\ []((OnlyBreakEvenCloses /\ Cardinality(BreakEvenIds) >= circuit_breaker_losses)
              => ~check_circuit_breaker)

\* three positions have been closed at break-even, one after the other,
\* and the breaker is open
C40_Witness ==
    /\ OnlyBreakEvenCloses
    /\ Cardinality(BreakEvenIds) = 3
    /\ ConsecutiveLosses = 3
    /\ ~check_circuit_breaker

(***************************************************************************)
(* Circuit breaker and store errors: properties                            *)
(***************************************************************************)
\* should_trade has been called and the read of the day's row raised
ShouldTradeReadRaised ==
    call.fn = "should_trade" /\ Len(call.args) = 4 /\ call.args[4]

\* C39: the circuit breaker fails open: when reading the day's performance
\* row raises, should_trade is decided by the position cap and the drawdown
\* check alone, whatever the number of consecutive losses in the row.
C39_BreakerFailsOpen ==
    ShouldTradeReadRaised =>
        call.result.allowed =
            (/\ check_position_limit(call.args[1])
             /\ (call.args[2] < 0 =>
                    check_daily_drawdown_limit(call.args[2], call.args[3])))

\* trading is allowed with three or more consecutive losses in the row,
\* because the read raised
C39_Witness ==
    /\ ShouldTradeReadRaised
    /\ call.store # <<>>
    /\ call.store[1].consecutive_losses >= circuit_breaker_losses
    /\ call.result.allowed

====
